---- MODULE Spec2Model ----
(***************************************************************************)
(* A model of the reloadable serving plane of shove: the page manifest and *)
(* its cache (serve/pages.rs), the live-reload hub (serve/livereload.rs),  *)
(* the cache-control catalog (cache_control/manager.rs) and the access     *)
(* policy (protect/auth.rs, serve/state.rs).                               *)
(***************************************************************************)
EXTENDS Integers, Sequences, FiniteSets, TLC

\* ------------------------------------------------------------------ bounds

\* Background delta-load tasks one behaviour may spawn.
MaxTasks == 2
\* Websocket clients one behaviour may attach to the hub.
MaxClients == 2
\* Distinct content hashes in the manifests the delta computation is tried on.
MaxHashes == 2

\* Users the protect tool may create in one behaviour.
MaxUsers == 2
\* The longest user list a realm may be given.
MaxList == 2
MaxConns == 1
\* The longest NonEmptyList and the largest capacity one behaviour builds.
MaxLen == 3
MaxCap == 8
\* Permits of the request semaphore.
MaxPermits == 1
\* AuthChecker operations in flight at once.
MaxOps == 2

\* ------------------------------------------------------------- the bucket

Roots == {"site", "alt"}
Paths == {"/index.html", "/404.html", "/new.html"}

\* format!("{root}{path}"): the object-store key of a request path.
Key(root, path) == <<root, path>>

AllKeys == {Key(r, p) : r \in Roots, p \in Paths}

NoObject == "none"
NoEntry == "miss"

\* The byte strings upload_data.json may hold: three manifests and one that
\* is not JSON. A fourth manifest, "m4", is "m2" without /new.html; it is
\* uploaded where a key is dropped under an unchanged root. A fifth, "m5", is
\* "m2" with /index.html changed once more.
ManifestBytes == {"m1", "m2", "m3", "bad"}

\* Whether serde_json::from_slice::<UploadData> accepts the bytes.
WellFormed(bytes) == bytes \in {"m1", "m2", "m3", "m4", "m5"}

NoManifest == [root |-> "", entries |-> <<>>]

\* serde_json::from_slice::<UploadData>: the manifest a byte string holds.
ParseUploadData(bytes) ==
    CASE bytes = "m1" ->
           [root |-> "site",
            entries |-> (Key("site", "/index.html") :> "h1"
                         @@ Key("site", "/404.html") :> "h2")]
      [] bytes = "m2" ->
           [root |-> "site",
            entries |-> (Key("site", "/index.html") :> "h1b"
                         @@ Key("site", "/404.html") :> "h2"
                         @@ Key("site", "/new.html") :> "h3")]
      [] bytes = "m3" ->
           [root |-> "alt",
            entries |-> (Key("alt", "/index.html") :> "h1"
                         @@ Key("alt", "/404.html") :> "h4")]
      [] bytes = "m4" ->
           [root |-> "site",
            entries |-> (Key("site", "/index.html") :> "h1b"
                         @@ Key("site", "/404.html") :> "h2")]
      [] bytes = "m5" ->
           [root |-> "site",
            entries |-> (Key("site", "/index.html") :> "h1c"
                         @@ Key("site", "/404.html") :> "h2"
                         @@ Key("site", "/new.html") :> "h3")]
      [] OTHER -> NoManifest

\* Sha256 of the raw bytes; distinct byte strings have distinct digests.
hash_raw_bytes(bytes) == <<"sha256", bytes>>

\* The objects an upload of `bytes` leaves in the bucket: each listed key
\* holds the content its hash names, every other key is absent.
ObjectsOf(bytes) ==
    LET ud == ParseUploadData(bytes)
    IN  [k \in AllKeys |->
            IF k \in DOMAIN ud.entries THEN ud.entries[k] ELSE NoObject]

\* The byte strings cache_control.json may hold: absent (read as empty),
\* two catalogs, and one that is not JSON.
CcBytes == {"", "c1", "c2", "cbad"}

NoCatalog == [default |-> "none", overrides |-> "none"]

CcWellFormed(bytes) == bytes \in {"", "c1", "c2"}

\* Caching::construct_from_bytes: empty bytes are the default catalog.
construct_from_bytes(bytes) ==
    CASE bytes = "" -> [default |-> "none", overrides |-> "none"]
      [] bytes = "c1" -> [default |-> "max-age=60", overrides |-> "none"]
      [] bytes = "c2" -> [default |-> "no-cache", overrides |-> "/img"]
      [] OTHER -> NoCatalog

\* The byte strings authdata may hold: two policies over one realm, each
\* with its own user.
AuthBytes == {"a1", "a2"}

\* AuthChecker::read_from_s3: the realms and the users the bytes decrypt to.
read_from_s3(bytes) ==
    CASE bytes = "a1" -> [realms |-> [pattern |-> "/admin", uuids |-> {"u1"}],
                          users |-> [uuid \in {"u1"} |-> "alice"]]
      [] OTHER -> [realms |-> [pattern |-> "/admin", uuids |-> {"u2"}],
                   users |-> [uuid \in {"u2"} |-> "bob"]]

\* Quota::per_minute(10) of AuthChecker::new: every IP has Quota cells, and
\* one cell in use is given back every 60 / Quota seconds.
Quota == 10

\* How many replenish intervals pass.
MaxClock == 1

\* The replenish intervals of one minute.
TicksPerMinute == Quota

Requests == {"q1"}
IPs == {"ip1", "ip2"}

\* Normalised request paths, and what may follow a realm's pattern in one.
ReqPaths == {"/index.html", "/admin/index.html"}
PathTails == {"", "/index.html"}

\* path.starts_with(pattern.as_str())
starts_with(path, pattern) == \E rest \in PathTails : path = pattern \o rest

ReqUsers == {"alice", "bob"}
ReqPasswords == {"pw", "NO"}

\* Argon2::default().hash_password(password, salt).serialize().to_string()
hash_password(password) == <<"$argon2id", password>>

\* The stored_key of a user of the policy: the hash add_user made of the
\* password it was given.
stored_key(username) ==
    IF username = "alice" THEN hash_password("pw")
    ELSE hash_password("pw-" \o username)

\* The hash check_auth verifies against when the username is unknown.
FAKE_PASSWORD == hash_password("thisismyfakepassword")

\* PasswordHash::new(&s) is Ok
PasswordHashNew(s) == Len(s) = 2 /\ s[1] = "$argon2id"

\* A verifier that accepts every password.
verify_any(password, hash) == "Ok"

\* Argon2::default().verify_password(password, &hash)
verify_password(password, hash) ==
    IF hash = hash_password(password) THEN "Ok" ELSE "Password"

\* The Authorization header of a request: absent, not visible ASCII, of
\* another scheme, "Basic " with a payload that is not base64, that is not
\* UTF-8 once decoded, that has no colon, or that is username:password.
HeaderKinds ==
    {"absent", "opaque", "bearer", "badb64", "badutf8", "nocolon", "basic"}
Header(kind, username, password) ==
    [kind |-> kind, username |-> username, password |-> password]
Headers ==
    {Header(k, "", "") : k \in HeaderKinds \ {"basic"}}
    \cup {Header("basic", u, pw) : u \in ReqUsers, pw \in ReqPasswords}

\* headers.get("Authorization") is Some
HeaderPresent(h) == h.kind # "absent"
\* x.to_str() is Ok
ToStr(h) == h.kind # "opaque"
\* x.strip_prefix("Basic ") is Some
StripPrefixBasic(h) == h.kind \in {"badb64", "badutf8", "nocolon", "basic"}
\* BASE64_STANDARD.decode(..) is Ok
Base64Decode(h) == h.kind \in {"badutf8", "nocolon", "basic"}
\* String::from_utf8(dec) is Ok
FromUtf8(h) == h.kind \in {"nocolon", "basic"}
\* decoded.rfind(':') is Some
RfindColon(h) == h.kind = "basic"

\* TIGRIS_TOKEN, when the environment has it.
Token == "secret"
NoToken == "none"

\* The POSTs a webhook caller may send: the path, and an Authorization
\* header that is absent, not a string, of another scheme, or "Bearer "
\* followed by a token.
PostPaths == {"/reload", "/other"}
PostHeaders ==
    {[kind |-> k, token |-> ""] : k \in {"absent", "opaque", "basic"}}
    \cup {[kind |-> "bearer", token |-> t] : t \in {Token, "wrong"}}

\* x.strip_prefix("Bearer ") of a header that is a string
StripPrefixBearer(h) == h.kind = "bearer"

\* ----------------------------------------------------------------- state

Reloaders == {"tick", "hook"}
Getters == {"g1"}
Hooks == {"hook1", "hook2"}
Checkers == {"r1"}
Clients == 1..MaxClients

VARIABLES
    storeBytes,        \* bucket: the bytes at upload_data.json
    storeObjects,      \* bucket: key -> content, or NoObject
    upload_data,       \* Pages.upload_data (behind the RwLock)
    udReaders,         \* who holds a read guard of the upload_data RwLock
    version,           \* history: how many swaps upload_data has seen
    liveBytes,         \* history: the bytes upload_data was last loaded from
    last_upload_hash,  \* Pages.last_upload_hash (the Mutex's value)
    pagesGuard,        \* who holds the last_upload_hash Mutex, or "free"
    cache,             \* Pages.cache: key -> content, or NoEntry
    rpc,               \* per reloader: position in Pages::check_and_reload
    rloc,              \* per reloader: its locals
    lastRet,           \* what the last Pages::check_and_reload to return returned
    tasks,             \* the spawned background tasks, oldest first
    senders,           \* LiveReloader.senders (the Vec behind the Mutex)
    hubLock,           \* who holds the senders Mutex, or "free"
    peer,              \* per client: the state of its socket
    clientLog,         \* per client: the calls send_reload made on its sender
    sweepPc,           \* the dead-check task's position
    gpc,               \* per getter: position in Pages::get
    gloc,              \* per getter: its locals
    ccBytes,           \* bucket: the bytes at cache_control.json ("" if absent)
    cc_last_hash,      \* CacheControlManager.last_hash (the Mutex's value)
    ccGuard,           \* who holds the last_hash Mutex, or "free"
    cc_current,        \* CacheControlManager.current (behind the RwLock)
    cpc,               \* per trigger: position in the manager's check_and_reload
    cloc,              \* per trigger: the bytes it fetched
    ccLastRet,         \* what the manager's check_and_reload last returned
    authBytes,         \* bucket: the bytes at authdata
    last_auth_hash,    \* State.last_auth_hash (behind the RwLock)
    auth_realms,       \* AuthChecker.auth_realms (behind the RwLock)
    auth_users,        \* AuthChecker.auth_users (behind the RwLock)
    realmsReaders,     \* who holds a read guard of auth_realms
    spc,               \* per webhook: position in State::check_and_reload
    sloc,              \* per webhook: its locals
    apc,               \* per request: position in AuthChecker::check_auth
    aloc,              \* per request: what it read
    qpc,               \* per GET/HEAD: position in serve_get_head and check_auth
    qloc,              \* per GET/HEAD: the request and what check_auth did for it
    limiter,           \* AuthChecker.rate_limiter: per IP, the cells in use
    clock,             \* history: replenish intervals elapsed
    passed,            \* history: per IP, the attempts the limiter let through
    tigris_token,      \* State.tigris_token: the webhook token, or NoToken
    wpc,               \* per webhook: position in serve_post
    wloc,              \* per webhook: the POST and its answer
    storer,            \* the AuthStorer of the protect tool
    calc,              \* the last cache-control operation: arguments and result
    srv                \* serve: the accept loop, its tasks and the shutdown

pagesVars == <<storeBytes, storeObjects, upload_data, udReaders, version,
               liveBytes, last_upload_hash, pagesGuard, cache, rpc, rloc, lastRet, tasks>>
hubVars == <<senders, hubLock, peer, clientLog, sweepPc>>
getVars == <<gpc, gloc>>
ccmVars == <<ccBytes, cc_last_hash, ccGuard, cc_current, cpc, cloc, ccLastRet>>
authVars == <<authBytes, last_auth_hash, auth_realms, auth_users,
              realmsReaders, spc, sloc, apc, aloc>>
reqVars == <<qpc, qloc, limiter, clock, passed>>
hookVars == <<tigris_token, wpc, wloc>>
sideVars == <<storer, calc, srv>>
vars == <<pagesVars, hubVars, getVars, ccmVars, authVars, reqVars, hookVars,
          sideVars>>

\* A spawned task: the keys it still has to read, and for the record what
\* it was given (to_update, the manifests of its reload), how many reads it
\* issued, the results read and not yet inserted (ready) and whom its
\* broadcast took off the list (takenAll).
NewTask(keys, notify, old, new) ==
    [pending |-> keys, to_update |-> keys, fetches |-> 0, notify |-> notify,
     pc |-> "fetch", taken |-> {}, result |-> "none", old |-> old,
     new |-> new, takenAll |-> {}, ready |-> {}]

NoLocals == [bytes |-> "none", old |-> NoManifest, new |-> NoManifest,
             to_be_updated |-> {}, to_be_removed |-> {}]

NoGet == [path |-> "none", root |-> "none", rootVersion |-> -1,
          entriesVersion |-> -1, status |-> 0, content |-> NoEntry]

\* Pages::new: the manifest is fetched, hashed and parsed, the 404 page is
\* pre-warmed when its fetch succeeds, and a task warm-reads every entry.
InitPages ==
    /\ storeBytes = "m1"
    /\ storeObjects = ObjectsOf("m1")
    /\ upload_data = ParseUploadData("m1")
    /\ udReaders = {}
    /\ version = 0
    /\ liveBytes = "m1"
    /\ last_upload_hash = hash_raw_bytes("m1")
    /\ pagesGuard = "free"
    /\ \E warmed \in BOOLEAN :
         cache = [k \in AllKeys |->
                    IF warmed /\ k = Key("site", "/404.html")
                    THEN "h2" ELSE NoEntry]
    /\ rpc = [p \in Reloaders |-> "idle"]
    /\ rloc = [p \in Reloaders |-> NoLocals]
    /\ lastRet = "none"
    /\ tasks = << NewTask(DOMAIN ParseUploadData("m1").entries, FALSE,
                           NoManifest, ParseUploadData("m1")) >>

HubFree == <<"free", 0>>

InitHub ==
    /\ senders = <<>>
    /\ hubLock = HubFree
    /\ peer = [c \in Clients |-> "unborn"]
    /\ clientLog = [c \in Clients |-> <<>>]
    /\ sweepPc = "sleep"

InitGet ==
    /\ gpc = [g \in Getters |-> "idle"]
    /\ gloc = [g \in Getters |-> NoGet]

\* CacheControlManager::new: the catalog of the bucket and its digest.
InitCcm ==
    /\ ccBytes = "c1"
    /\ cc_last_hash = hash_raw_bytes("c1")
    /\ ccGuard = "free"
    /\ cc_current = construct_from_bytes("c1")
    /\ cpc = [p \in Reloaders |-> "idle"]
    /\ cloc = [p \in Reloaders |-> "none"]
    /\ ccLastRet = "none"

NoAuthLocals ==
    [hash |-> <<>>, realms |-> <<>>, users |-> <<>>, ret |-> "none"]
NoCheck == [realms |-> <<>>, users |-> <<>>, allowed |-> {}, done |-> FALSE]

\* AuthChecker::new and State::new: the policy of the bucket and its digest.
InitAuth ==
    /\ authBytes = "a1"
    /\ last_auth_hash = hash_raw_bytes("a1")
    /\ auth_realms = read_from_s3("a1").realms
    /\ auth_users = read_from_s3("a1").users
    /\ realmsReaders = {}
    /\ spc = [h \in Hooks |-> "idle"]
    /\ sloc = [h \in Hooks |-> NoAuthLocals]
    /\ apc = [r \in Checkers |-> "idle"]
    /\ aloc = [r \in Checkers |-> NoCheck]

NoRequest ==
    [ip |-> "none", path |-> "none", header |-> Header("absent", "", ""),
     users |-> {}, headerReads |-> 0, cells |-> 0, verifies |-> 0,
     verified |-> <<>>, ret |-> "none", status |-> 0, challenge |-> "none",
     got |-> FALSE]

\* AuthChecker::new: a fresh keyed rate limiter.
InitReq ==
    /\ qpc = [q \in Requests |-> "idle"]
    /\ qloc = [q \in Requests |-> NoRequest]
    /\ limiter = [ip \in IPs |-> 0]
    /\ clock = 0
    /\ passed = [ip \in IPs |-> 0]


NoPost == [path |-> "none", header |-> [kind |-> "absent", token |-> ""],
           status |-> 0, called |-> FALSE]

\* No POST has been received.
InitHook ==
    /\ wpc = [h \in Hooks |-> "idle"]
    /\ wloc = [h \in Hooks |-> NoPost]

\* AuthStorer::default(), as construct_from_enc_bytes returns it for an
\* authdata object that does not exist yet; made counts the ids generated.
NoStorer ==
    [realms |-> <<>>, users |-> <<>>, made |-> 0,
     last |-> [op |-> "none", id |-> 0]]

NoCalc == [op |-> "none"]
NoServe == [pc |-> "none"]

InitSide ==
    /\ storer = NoStorer
    /\ calc = NoCalc
    /\ srv = NoServe

Init ==
    /\ InitPages /\ InitHub /\ InitGet /\ InitCcm /\ InitAuth /\ InitReq
    /\ InitHook /\ tigris_token = Token /\ InitSide

\* ------------------------------------------------------ the object store

\* An upload replaces the manifest; a well-formed one comes with its objects.
Upload(bytes) ==
    /\ bytes # storeBytes
    /\ storeBytes' = bytes
    /\ storeObjects' = IF WellFormed(bytes)
                       THEN ObjectsOf(bytes) ELSE storeObjects
    /\ UNCHANGED <<upload_data, udReaders, version, liveBytes,
                   last_upload_hash, pagesGuard, cache, rpc, rloc, lastRet,
                   tasks, hubVars, getVars, ccmVars, authVars,
                   reqVars, hookVars, sideVars>>

\* ------------------------------------------- the upload_data RwLock

\* tokio's RwLock queues fairly: a reader arriving behind a waiting writer
\* waits for it. The only writer that waits for good is a Pages::get that
\* asks for the write guard while its own read guard is alive.
CanRead == \A g \in Getters : gpc[g] # "wait_write"
CanWrite == udReaders = {} /\ CanRead

\* ------------------------------------------ Pages::check_and_reload

ReloadTasks == {i \in 1..Len(tasks) : tasks[i].notify}

Return(p, result) ==
    /\ rpc' = [rpc EXCEPT ![p] = "idle"]
    /\ rloc' = [rloc EXCEPT ![p] = NoLocals]
    /\ lastRet' = result
    /\ pagesGuard' = "free"

\* self.last_upload_hash.try_lock(), taken or refused.
PagesTryLock(p) ==
    /\ rpc[p] = "idle"
    /\ \/ /\ pagesGuard = "free"
          /\ Cardinality(ReloadTasks) < MaxTasks
          /\ pagesGuard' = p
          /\ rpc' = [rpc EXCEPT ![p] = "fetch"]
          /\ UNCHANGED lastRet
       \/ /\ pagesGuard # "free"
          /\ lastRet' = "ErrAlreadyReloading"
          /\ UNCHANGED <<pagesGuard, rpc>>
    /\ UNCHANGED <<storeBytes, storeObjects, upload_data, udReaders, version,
                   liveBytes, last_upload_hash, cache, rloc, tasks,
                   hubVars, getVars, ccmVars, authVars, reqVars, hookVars,
                   sideVars>>

\* bucket.get_object(UPLOAD_DATA_LOCATION).await?, and the digest.
PagesFetch(p) ==
    /\ rpc[p] = "fetch"
    /\ \/ /\ rloc' = [rloc EXCEPT ![p].bytes = storeBytes]
          /\ rpc' = [rpc EXCEPT ![p] = "compare"]
          /\ UNCHANGED <<lastRet, pagesGuard>>
       \/ Return(p, "ErrFetch")
    /\ UNCHANGED <<storeBytes, storeObjects, upload_data, udReaders, version,
                   liveBytes, last_upload_hash, cache, tasks,
                   hubVars, getVars, ccmVars, authVars, reqVars, hookVars,
                   sideVars>>

\* if *last_upload_hash == hash { return Ok(()) }
PagesSame(p) ==
    /\ rpc[p] = "compare"
    /\ last_upload_hash = hash_raw_bytes(rloc[p].bytes)
    /\ Return(p, "OkUnchanged")
    /\ UNCHANGED <<storeBytes, storeObjects, upload_data, udReaders, version,
                   liveBytes, last_upload_hash, cache, tasks,
                   hubVars, getVars, ccmVars, authVars, reqVars, hookVars,
                   sideVars>>

\* A reload that goes on whatever the digest comparison says.
PagesReadOldAlways(p) ==
    /\ rpc[p] = "compare"
    /\ CanRead
    /\ WellFormed(rloc[p].bytes)
    /\ rloc' = [rloc EXCEPT ![p].old = upload_data,
                            ![p].new = ParseUploadData(rloc[p].bytes)]
    /\ rpc' = [rpc EXCEPT ![p] = "swap"]
    /\ UNCHANGED <<lastRet, pagesGuard>>
    /\ UNCHANGED <<storeBytes, storeObjects, upload_data, udReaders, version,
                   liveBytes, last_upload_hash, cache, tasks,
                   hubVars, getVars, ccmVars, authVars, reqVars, hookVars,
                   sideVars>>

\* The old manifest is cloned under a read guard, the new one parsed.
PagesReadOld(p) ==
    /\ rpc[p] = "compare"
    /\ last_upload_hash # hash_raw_bytes(rloc[p].bytes)
    /\ CanRead
    /\ \/ /\ ~WellFormed(rloc[p].bytes)
          /\ Return(p, "ErrParse")
       \/ /\ WellFormed(rloc[p].bytes)
          /\ rloc' = [rloc EXCEPT ![p].old = upload_data,
                                  ![p].new = ParseUploadData(rloc[p].bytes)]
          /\ rpc' = [rpc EXCEPT ![p] = "swap"]
          /\ UNCHANGED <<lastRet, pagesGuard>>
    /\ UNCHANGED <<storeBytes, storeObjects, upload_data, udReaders, version,
                   liveBytes, last_upload_hash, cache, tasks,
                   hubVars, getVars, ccmVars, authVars, reqVars, hookVars,
                   sideVars>>

\* *self.upload_data.write().await = new_upload_data.clone()
PagesSwap(p) ==
    /\ rpc[p] = "swap"
    /\ CanWrite
    /\ upload_data' = rloc[p].new
    /\ version' = version + 1
    /\ liveBytes' = rloc[p].bytes
    /\ rpc' = [rpc EXCEPT ![p] = "diff"]
    /\ UNCHANGED <<storeBytes, storeObjects, udReaders, last_upload_hash,
                   pagesGuard, cache, rloc, lastRet, tasks, hubVars, getVars, ccmVars, authVars,
                   reqVars, hookVars, sideVars>>

\* The loop over the old entries: to_be_updated starts as every key of the
\* new manifest and loses the keys whose hash is unchanged; to_be_removed
\* collects the old keys the new manifest lacks.
RECURSIVE DiffLoop(_, _, _, _, _)
DiffLoop(left, old, new, upd, rem) ==
    IF left = {} THEN [to_be_updated |-> upd, to_be_removed |-> rem]
    ELSE LET old_entry == CHOOSE k \in left : TRUE
         IN  IF old_entry \in DOMAIN new
             THEN IF old[old_entry] = new[old_entry]
                  THEN DiffLoop(left \ {old_entry}, old, new,
                                upd \ {old_entry}, rem)
                  ELSE DiffLoop(left \ {old_entry}, old, new, upd, rem)
             ELSE DiffLoop(left \ {old_entry}, old, new, upd,
                           rem \cup {old_entry})

\* A reload that refetches every entry of the new manifest.
DiffAllNew(old, new) ==
    [to_be_updated |-> DOMAIN new.entries,
     to_be_removed |-> DOMAIN old.entries \ DOMAIN new.entries]

Diff(old, new) ==
    DiffLoop(DOMAIN old.entries, old.entries, new.entries,
             DOMAIN new.entries, {})

\* cache.invalidate_all(): every entry is dropped.
InvalidateAll(c, to_be_removed) == [k \in AllKeys |-> NoEntry]

\* cache.invalidate_entries_if(|entry, _| to_be_removed.contains(entry))
Invalidate(c, to_be_removed) ==
    [k \in AllKeys |-> IF k \in to_be_removed THEN NoEntry ELSE c[k]]

PagesInvalidate(p) ==
    /\ rpc[p] = "diff"
    /\ LET d == Diff(rloc[p].old, rloc[p].new)
       IN  /\ rloc' = [rloc EXCEPT ![p].to_be_updated = d.to_be_updated,
                                   ![p].to_be_removed = d.to_be_removed]
           /\ cache' = Invalidate(cache, d.to_be_removed)
    /\ rpc' = [rpc EXCEPT ![p] = "spawn"]
    /\ UNCHANGED <<storeBytes, storeObjects, upload_data, udReaders, version,
                   liveBytes, last_upload_hash, pagesGuard, lastRet, tasks,
                   hubVars, getVars, ccmVars, authVars, reqVars, hookVars,
                   sideVars>>

\* The digest the reload leaves in last_upload_hash: the guard is bound
\* immutably and never assigned, so the recorded digest stays as it was.
RecordedAfterReload(recorded, bytes) == recorded

\* A reload that hands the task every key of the new manifest.
PagesSpawnAll(p) ==
    /\ rpc[p] = "spawn"
    /\ tasks' = Append(tasks, NewTask(DOMAIN rloc[p].new.entries, TRUE,
                                       rloc[p].old, rloc[p].new))
    /\ UNCHANGED last_upload_hash
    /\ Return(p, "OkReloaded")
    /\ UNCHANGED <<storeBytes, storeObjects, upload_data, udReaders, version,
                   liveBytes, cache, hubVars, getVars, ccmVars, authVars,
                   reqVars, hookVars, sideVars>>

\* tokio::task::spawn of the delta load, then Ok(()): the guard drops.
PagesSpawn(p) ==
    /\ rpc[p] = "spawn"
    /\ tasks' = Append(tasks, NewTask(rloc[p].to_be_updated, TRUE,
                                       rloc[p].old, rloc[p].new))
    /\ last_upload_hash' = RecordedAfterReload(last_upload_hash, rloc[p].bytes)
    /\ Return(p, "OkReloaded")
    /\ UNCHANGED <<storeBytes, storeObjects, upload_data, udReaders, version,
                   liveBytes, cache, hubVars, getVars, ccmVars, authVars,
                   reqVars, hookVars, sideVars>>

\* ------------------------------------------- the background load task

Range(seq) == {seq[i] : i \in 1..Len(seq)}

TaskIds == 1..Len(tasks)

\* read_file_from_s3 of one key: present objects are read, absent ones (and
\* any transport failure) are an error.
FetchOk(k) == storeObjects[k] # NoObject

\* One future of the FuturesUnordered completes its read of the bucket: an
\* Ok result waits in the stream for the loop to take it, an Err will only
\* be logged.
TaskFetch(t, k) ==
    /\ t \in TaskIds
    /\ tasks[t].pc = "fetch"
    /\ k \in tasks[t].pending
    /\ \/ /\ FetchOk(k)
          /\ tasks' = [tasks EXCEPT ![t].pending = @ \ {k},
                                    ![t].fetches = @ + 1,
                                    ![t].ready = @ \cup {<<k, storeObjects[k]>>}]
       \/ tasks' = [tasks EXCEPT ![t].pending = @ \ {k},
                                 ![t].fetches = @ + 1]
    /\ UNCHANGED <<storeBytes, storeObjects, upload_data, udReaders, version,
                   liveBytes, last_upload_hash, pagesGuard, cache, rpc, rloc,
                   lastRet, hubVars, getVars, ccmVars, authVars,
                   reqVars, hookVars, sideVars>>

\* The loop takes an Ok result: task_cache.insert(path, ..).await
TaskInsert(t, k) ==
    /\ t \in TaskIds
    /\ tasks[t].pc = "fetch"
    /\ \E r \in tasks[t].ready :
         /\ r[1] = k
         /\ cache' = [cache EXCEPT ![k] = r[2]]
         /\ tasks' = [tasks EXCEPT ![t].ready = @ \ {r}]
    /\ UNCHANGED <<storeBytes, storeObjects, upload_data, udReaders, version,
                   liveBytes, last_upload_hash, pagesGuard, rpc, rloc, lastRet,
                   hubVars, getVars, ccmVars, authVars, reqVars, hookVars,
                   sideVars>>

\* A task that goes on to the broadcast with reads still outstanding.
TaskLoadedEarly(t) ==
    /\ t \in TaskIds
    /\ tasks[t].pc = "fetch"
    /\ tasks' = [tasks EXCEPT ![t].pc = IF tasks[t].notify
                                        THEN "send_reload" ELSE "done"]
    /\ UNCHANGED <<storeBytes, storeObjects, upload_data, udReaders, version,
                   liveBytes, last_upload_hash, pagesGuard, cache, rpc, rloc,
                   lastRet, hubVars, getVars, ccmVars, authVars,
                   reqVars, hookVars, sideVars>>

\* The while-let loop ends: the warm-up task is finished, the delta load
\* goes on to reloader.send_reload().
TaskLoaded(t) ==
    /\ t \in TaskIds
    /\ tasks[t].pc = "fetch"
    /\ tasks[t].pending = {}
    /\ tasks[t].ready = {}
    /\ tasks' = [tasks EXCEPT ![t].pc = IF tasks[t].notify
                                        THEN "send_reload" ELSE "done"]
    /\ UNCHANGED <<storeBytes, storeObjects, upload_data, udReaders, version,
                   liveBytes, last_upload_hash, pagesGuard, cache, rpc, rloc,
                   lastRet, hubVars, getVars, ccmVars, authVars,
                   reqVars, hookVars, sideVars>>

\* ------------------------------------------------ LiveReloader

\* A send_reload that takes the list whoever holds the lock.
SendReloadNoTryLock(t) ==
    /\ t \in TaskIds
    /\ tasks[t].pc = "send_reload"
    /\ hubLock' = <<"send_reload", t>>
    /\ tasks' = [tasks EXCEPT ![t].pc = "sending",
                              ![t].taken = Range(senders),
                              ![t].takenAll = Range(senders)]
    /\ senders' = <<>>
    /\ UNCHANGED <<storeBytes, storeObjects, upload_data, udReaders, version,
                   liveBytes, last_upload_hash, pagesGuard, cache, rpc, rloc,
                   lastRet, peer, clientLog, sweepPc, getVars, ccmVars, authVars,
                   reqVars, hookVars, sideVars>>

\* send_reload: self.senders.try_lock(), then mem::take of the list.
SendReloadTryLock(t) ==
    /\ t \in TaskIds
    /\ tasks[t].pc = "send_reload"
    /\ \/ /\ hubLock = HubFree
          /\ hubLock' = <<"send_reload", t>>
          /\ tasks' = [tasks EXCEPT ![t].pc = "sending",
                                    ![t].taken = Range(senders),
                                    ![t].takenAll = Range(senders)]
          /\ senders' = <<>>
       \/ /\ hubLock # HubFree
          /\ tasks' = [tasks EXCEPT ![t].pc = "done",
                                    ![t].result = "ErrAlreadyReloading"]
          /\ UNCHANGED <<hubLock, senders>>
    /\ UNCHANGED <<storeBytes, storeObjects, upload_data, udReaders, version,
                   liveBytes, last_upload_hash, pagesGuard, cache, rpc, rloc,
                   lastRet, peer, clientLog, sweepPc, getVars, ccmVars, authVars,
                   reqVars, hookVars, sideVars>>

\* reload(sender): send_text("reload"), flush, close, each followed by `?`.
\* Err(Closed) counts as Ok, so a peer that has closed is still sent all
\* three; on a broken connection send_text fails otherwise and the future
\* ends there. A peer that is alive receives the text and the close.
ReloadCalls(peerState) ==
    IF peerState = "broken" THEN <<"reload">> ELSE <<"reload", "close">>

SendReloadOne(t, c) ==
    /\ t \in TaskIds
    /\ tasks[t].pc = "sending"
    /\ c \in tasks[t].taken
    /\ tasks' = [tasks EXCEPT ![t].taken = @ \ {c}]
    /\ clientLog' = [clientLog EXCEPT ![c] = @ \o ReloadCalls(peer[c])]
    /\ peer' = [peer EXCEPT ![c] = IF @ = "alive" THEN "notified" ELSE @]
    /\ UNCHANGED <<storeBytes, storeObjects, upload_data, udReaders, version,
                   liveBytes, last_upload_hash, pagesGuard, cache, rpc, rloc,
                   lastRet, senders, hubLock, sweepPc, getVars, ccmVars, authVars,
                   reqVars, hookVars, sideVars>>

\* Every future is done: Ok(()), and the guard drops.
SendReloadDone(t) ==
    /\ t \in TaskIds
    /\ tasks[t].pc = "sending"
    /\ tasks[t].taken = {}
    /\ tasks' = [tasks EXCEPT ![t].pc = "done", ![t].result = "Ok"]
    /\ hubLock' = HubFree
    /\ UNCHANGED <<storeBytes, storeObjects, upload_data, udReaders, version,
                   liveBytes, last_upload_hash, pagesGuard, cache, rpc, rloc,
                   lastRet, senders, peer, clientLog, sweepPc, getVars, ccmVars, authVars,
                   reqVars, hookVars, sideVars>>

\* handle_livereload: self.senders.lock().await ... Clients are numbered in
\* the order they connect.
AttachLock(c) ==
    /\ peer[c] = "unborn"
    /\ \A d \in Clients : d < c => peer[d] # "unborn"
    /\ hubLock = HubFree
    /\ hubLock' = <<"attach", c>>
    /\ peer' = [peer EXCEPT ![c] = "alive"]
    /\ UNCHANGED <<pagesVars, senders, clientLog, sweepPc, getVars, ccmVars, authVars,
                   reqVars, hookVars, sideVars>>

\* ... .push(ws), and the guard drops.
AttachPush(c) ==
    /\ hubLock = <<"attach", c>>
    /\ senders' = Append(senders, c)
    /\ hubLock' = HubFree
    /\ UNCHANGED <<pagesVars, peer, clientLog, sweepPc, getVars, ccmVars, authVars,
                   reqVars, hookVars, sideVars>>

\* The peer closes its end, or its connection breaks.
PeerGoes(c, how) ==
    /\ peer[c] = "alive"
    /\ how \in {"closed", "broken"}
    /\ peer' = [peer EXCEPT ![c] = how]
    /\ UNCHANGED <<pagesVars, senders, hubLock, clientLog, sweepPc, getVars, ccmVars, authVars,
                   reqVars, hookVars, sideVars>>

\* The dead-check task wakes and takes the lock: dead_check_senders.lock().
SweepLock ==
    /\ sweepPc = "sleep"
    /\ hubLock = HubFree
    /\ hubLock' = <<"sweep", 0>>
    /\ sweepPc' = "check"
    /\ UNCHANGED <<pagesVars, senders, peer, clientLog, getVars, ccmVars, authVars,
                   reqVars, hookVars, sideVars>>

RemoveAt(seq, i) == SubSeq(seq, 1, i - 1) \o SubSeq(seq, i + 1, Len(seq))

\* `for res in needs_to_be_removed.next().await`: the loop runs over an
\* Option, so only the first future to complete is looked at; its client is
\* removed when handle_tx_and_rx found the peer closed.
SweepCheck ==
    /\ sweepPc = "check"
    /\ \/ /\ senders = <<>>
          /\ UNCHANGED senders
       \/ \E i \in 1..Len(senders) :
            senders' = IF peer[senders[i]] = "closed"
                       THEN RemoveAt(senders, i) ELSE senders
    /\ hubLock' = HubFree
    /\ sweepPc' = "sleep"
    /\ UNCHANGED <<pagesVars, peer, clientLog, getVars, ccmVars, authVars,
                   reqVars, hookVars, sideVars>>

\* ------------------------------------------------------ Pages::get

\* let root = self.upload_data.read().await.clone().root
GetRoot(g, path) ==
    /\ gpc[g] = "idle"
    /\ CanRead
    /\ gloc' = [gloc EXCEPT ![g] = [NoGet EXCEPT !.path = path,
                                                 !.root = upload_data.root,
                                                 !.rootVersion = version]]
    /\ gpc' = [gpc EXCEPT ![g] = "lookup"]
    /\ UNCHANGED <<pagesVars, hubVars, ccmVars, authVars, reqVars, hookVars,
                    sideVars>>

cache_path(g) == Key(gloc[g].root, gloc[g].path)

\* self.cache.get(&cache_path): a hit is served with status 200.
GetLookup(g) ==
    /\ gpc[g] = "lookup"
    /\ \/ /\ cache[cache_path(g)] # NoEntry
          /\ gloc' = [gloc EXCEPT ![g].status = 200,
                                  ![g].content = cache[cache_path(g)]]
          /\ gpc' = [gpc EXCEPT ![g] = "idle"]
       \/ /\ cache[cache_path(g)] = NoEntry
          /\ gpc' = [gpc EXCEPT ![g] = "entries"]
          /\ UNCHANGED gloc
    /\ UNCHANGED <<pagesVars, hubVars, ccmVars, authVars, reqVars, hookVars,
                    sideVars>>

\* not_found(): the cached 404 page of the root read at the start, if any.
NotFound(g) ==
    [gloc[g] EXCEPT !.status = 404,
                    !.content = cache[Key(gloc[g].root, "/404.html")]]

\* match self.upload_data.read().await.entries.get(&cache_path): the read
\* guard is a temporary of the scrutinee and lives to the end of the match.
GetEntries(g) ==
    /\ gpc[g] = "entries"
    /\ CanRead
    /\ \/ /\ cache_path(g) \in DOMAIN upload_data.entries
          /\ udReaders' = udReaders \cup {g}
          /\ gloc' = [gloc EXCEPT ![g].entriesVersion = version]
          /\ gpc' = [gpc EXCEPT ![g] = "s3"]
       \/ /\ cache_path(g) \notin DOMAIN upload_data.entries
          /\ gloc' = [gloc EXCEPT ![g] =
                        [NotFound(g) EXCEPT !.entriesVersion = version]]
          /\ gpc' = [gpc EXCEPT ![g] = "idle"]
          /\ UNCHANGED udReaders
    /\ UNCHANGED <<storeBytes, storeObjects, upload_data, version, liveBytes,
                   last_upload_hash, pagesGuard, cache, rpc, rloc, lastRet,
                   tasks, hubVars, ccmVars, authVars, reqVars, hookVars,
                   sideVars>>

\* Some(_hash) => read_file_from_s3: Ok backfills the cache and is served;
\* Err goes on to self.upload_data.write().await with the read guard of the
\* scrutinee still alive, and waits there.
GetReadThrough(g) ==
    /\ gpc[g] = "s3"
    /\ \/ /\ FetchOk(cache_path(g))
          /\ cache' = [cache EXCEPT ![cache_path(g)] =
                                       storeObjects[cache_path(g)]]
          /\ gloc' = [gloc EXCEPT ![g].status = 200,
                                  ![g].content = storeObjects[cache_path(g)]]
          /\ gpc' = [gpc EXCEPT ![g] = "idle"]
          /\ udReaders' = udReaders \ {g}
       \/ /\ gpc' = [gpc EXCEPT ![g] = "wait_write"]
          /\ UNCHANGED <<cache, gloc, udReaders>>
    /\ UNCHANGED <<storeBytes, storeObjects, upload_data, version, liveBytes,
                   last_upload_hash, pagesGuard, rpc, rloc, lastRet, tasks,
                   hubVars, ccmVars, authVars, reqVars, hookVars, sideVars>>

\* ------------------------- CacheControlManager::check_and_reload

CcUpload(bytes) ==
    /\ bytes # ccBytes
    /\ ccBytes' = bytes
    /\ UNCHANGED <<cc_last_hash, ccGuard, cc_current, cpc, cloc, ccLastRet,
                   pagesVars, hubVars, getVars, authVars, reqVars, hookVars,
                   sideVars>>

CcReturn(p, result) ==
    /\ cpc' = [cpc EXCEPT ![p] = "idle"]
    /\ cloc' = [cloc EXCEPT ![p] = "none"]
    /\ ccLastRet' = result
    /\ ccGuard' = "free"

\* A trigger that goes on whether or not the guard is held.
CcmNoGuard(p) ==
    /\ cpc[p] = "idle"
    /\ ccGuard' = p
    /\ cpc' = [cpc EXCEPT ![p] = "fetch"]
    /\ UNCHANGED <<ccBytes, cc_last_hash, cc_current, cloc, ccLastRet,
                   pagesVars, hubVars, getVars, authVars, reqVars, hookVars,
                   sideVars>>

\* self.last_hash.try_lock(), taken or refused.
CcmTryLock(p) ==
    /\ cpc[p] = "idle"
    /\ \/ /\ ccGuard = "free"
          /\ ccGuard' = p
          /\ cpc' = [cpc EXCEPT ![p] = "fetch"]
          /\ UNCHANGED ccLastRet
       \/ /\ ccGuard # "free"
          /\ ccLastRet' = "ErrAlreadyReloading"
          /\ UNCHANGED <<ccGuard, cpc>>
    /\ UNCHANGED <<ccBytes, cc_last_hash, cc_current, cloc,
                   pagesVars, hubVars, getVars, authVars, reqVars, hookVars,
                   sideVars>>

\* Caching::get_raw_bytes(bucket).await?, and the return on empty bytes.
CcmFetch(p) ==
    /\ cpc[p] = "fetch"
    /\ \/ CcReturn(p, "ErrFetch")
       \/ /\ ccBytes = ""
          /\ CcReturn(p, "OkEmpty")
       \/ /\ ccBytes # ""
          /\ cloc' = [cloc EXCEPT ![p] = ccBytes]
          /\ cpc' = [cpc EXCEPT ![p] = "compare"]
          /\ UNCHANGED <<ccLastRet, ccGuard>>
    /\ UNCHANGED <<ccBytes, cc_last_hash, cc_current,
                   pagesVars, hubVars, getVars, authVars, reqVars, hookVars,
                   sideVars>>

\* if *last_hash == new_hash { return Ok(()) }
CcmSame(p) ==
    /\ cpc[p] = "compare"
    /\ cc_last_hash = hash_raw_bytes(cloc[p])
    /\ CcReturn(p, "OkUnchanged")
    /\ UNCHANGED <<ccBytes, cc_last_hash, cc_current,
                   pagesVars, hubVars, getVars, authVars, reqVars, hookVars,
                   sideVars>>

\* A manager that drops its catalog when the new bytes do not parse.
CcmRecordClears(p) ==
    /\ cpc[p] = "compare"
    /\ cc_last_hash # hash_raw_bytes(cloc[p])
    /\ cc_last_hash' = hash_raw_bytes(cloc[p])
    /\ \/ /\ ~CcWellFormed(cloc[p])
          /\ cc_current' = NoCatalog
          /\ CcReturn(p, "ErrParse")
       \/ /\ CcWellFormed(cloc[p])
          /\ cpc' = [cpc EXCEPT ![p] = "install"]
          /\ UNCHANGED <<cloc, ccLastRet, ccGuard, cc_current>>
    /\ UNCHANGED <<ccBytes, pagesVars, hubVars, getVars, authVars,
                   reqVars, hookVars, sideVars>>

\* *last_hash = new_hash, then construct_from_bytes(&raw_bytes)?: the digest
\* is recorded before the bytes are parsed.
CcmRecord(p) ==
    /\ cpc[p] = "compare"
    /\ cc_last_hash # hash_raw_bytes(cloc[p])
    /\ cc_last_hash' = hash_raw_bytes(cloc[p])
    /\ \/ /\ ~CcWellFormed(cloc[p])
          /\ CcReturn(p, "ErrParse")
       \/ /\ CcWellFormed(cloc[p])
          /\ cpc' = [cpc EXCEPT ![p] = "install"]
          /\ UNCHANGED <<cloc, ccLastRet, ccGuard>>
    /\ UNCHANGED <<ccBytes, cc_current, pagesVars, hubVars, getVars, authVars,
                   reqVars, hookVars, sideVars>>

\* *self.current.write().await = new_version, then Ok(()).
CcmInstall(p) ==
    /\ cpc[p] = "install"
    /\ cc_current' = construct_from_bytes(cloc[p])
    /\ CcReturn(p, "OkReloaded")
    /\ UNCHANGED <<ccBytes, cc_last_hash, pagesVars, hubVars, getVars,
                   authVars, reqVars, hookVars, sideVars>>

\* ---------------- State::check_and_reload and the access policy

AuthUpload(bytes) ==
    /\ bytes # authBytes
    /\ authBytes' = bytes
    /\ UNCHANGED <<last_auth_hash, auth_realms, auth_users, realmsReaders,
                   spc, sloc, apc, aloc, pagesVars, hubVars, getVars, ccmVars,
                   reqVars, hookVars, sideVars>>

\* The authdata object is read and hashed (a failed read hashes no bytes).
StateHashAuth(h) ==
    /\ spc[h] = "idle"
    /\ \E raw \in {authBytes, ""} :
         sloc' = [sloc EXCEPT ![h].hash = hash_raw_bytes(raw),
                              ![h].ret = "none"]
    /\ spc' = [spc EXCEPT ![h] = "compare"]
    /\ UNCHANGED <<authBytes, last_auth_hash, auth_realms, auth_users,
                   realmsReaders, apc, aloc, pagesVars, hubVars, getVars,
                   ccmVars, reqVars, hookVars, sideVars>>

\* if raw_auth_hash != *self.last_auth_hash.read().await: the read guard is
\* a temporary of the condition.
StateCompareAuth(h) ==
    /\ spc[h] = "compare"
    /\ spc' = [spc EXCEPT ![h] = IF sloc[h].hash # last_auth_hash
                                 THEN "record" ELSE "manifest"]
    /\ UNCHANGED <<authBytes, last_auth_hash, auth_realms, auth_users,
                   realmsReaders, sloc, apc, aloc, pagesVars, hubVars,
                   getVars, ccmVars, reqVars, hookVars, sideVars>>

\* *self.last_auth_hash.write().await = raw_auth_hash
StateRecordAuth(h) ==
    /\ spc[h] = "record"
    /\ last_auth_hash' = sloc[h].hash
    /\ spc' = [spc EXCEPT ![h] = "reload"]
    /\ UNCHANGED <<authBytes, auth_realms, auth_users, realmsReaders, sloc,
                   apc, aloc, pagesVars, hubVars, getVars, ccmVars,
                   reqVars, hookVars, sideVars>>

\* AuthChecker::reload awaited with `?`: an error of read_from_s3 ends the
\* run at once.
AuthReloadReadReturns(h) ==
    /\ spc[h] = "reload"
    /\ \/ /\ sloc' = [sloc EXCEPT ![h].realms = read_from_s3(authBytes).realms,
                                  ![h].users = read_from_s3(authBytes).users]
          /\ spc' = [spc EXCEPT ![h] = "write_realms"]
       \/ /\ spc' = [spc EXCEPT ![h] = "idle"]
          /\ sloc' = [sloc EXCEPT ![h] = [NoAuthLocals EXCEPT !.ret = "Err"]]
    /\ UNCHANGED <<authBytes, last_auth_hash, auth_realms, auth_users,
                   realmsReaders, apc, aloc, pagesVars, hubVars, getVars,
                   ccmVars, reqVars, hookVars, sideVars>>

\* AuthChecker::reload, Self::read_from_s3(..).await?: an error is logged by
\* the caller, which goes on to the manifest.
AuthReloadRead(h) ==
    /\ spc[h] = "reload"
    /\ \/ /\ sloc' = [sloc EXCEPT ![h].realms = read_from_s3(authBytes).realms,
                                  ![h].users = read_from_s3(authBytes).users]
          /\ spc' = [spc EXCEPT ![h] = "write_realms"]
       \/ /\ spc' = [spc EXCEPT ![h] = "manifest"]
          /\ UNCHANGED sloc
    /\ UNCHANGED <<authBytes, last_auth_hash, auth_realms, auth_users,
                   realmsReaders, apc, aloc, pagesVars, hubVars, getVars,
                   ccmVars, reqVars, hookVars, sideVars>>

\* *self.auth_realms.write().await = realms
AuthWriteRealms(h) ==
    /\ spc[h] = "write_realms"
    /\ realmsReaders = {}
    /\ auth_realms' = sloc[h].realms
    /\ spc' = [spc EXCEPT ![h] = "write_users"]
    /\ UNCHANGED <<authBytes, last_auth_hash, auth_users, realmsReaders, sloc,
                   apc, aloc, pagesVars, hubVars, getVars, ccmVars,
                   reqVars, hookVars, sideVars>>

\* *self.auth_users.write().await = users
AuthWriteUsers(h) ==
    /\ spc[h] = "write_users"
    /\ auth_users' = sloc[h].users
    /\ spc' = [spc EXCEPT ![h] = "manifest"]
    /\ UNCHANGED <<authBytes, last_auth_hash, auth_realms, realmsReaders, sloc,
                   apc, aloc, pagesVars, hubVars, getVars, ccmVars,
                   reqVars, hookVars, sideVars>>

\* The rest of State::check_and_reload: the manifest is fetched and compared
\* with the live one; a different one is swapped in, the entries it dropped
\* are invalidated and the delta load is spawned. A manifest that does not
\* parse returns the error, everything else Ok.
StateManifest(h) ==
    /\ spc[h] = "manifest"
    /\ CanRead
    /\ spc' = [spc EXCEPT ![h] = "idle"]
    /\ sloc' = [sloc EXCEPT ![h] =
                  [NoAuthLocals EXCEPT !.ret = IF WellFormed(storeBytes)
                                               THEN "Ok" ELSE "Err"]]
    /\ \/ /\ \/ ~WellFormed(storeBytes)
             \/ ParseUploadData(storeBytes) = upload_data
          /\ UNCHANGED <<upload_data, version, liveBytes, cache, tasks>>
       \/ /\ WellFormed(storeBytes)
          /\ ParseUploadData(storeBytes) # upload_data
          /\ CanWrite
          /\ Cardinality(ReloadTasks) < MaxTasks
          /\ LET new == ParseUploadData(storeBytes)
                 d == Diff(upload_data, new)
             IN  /\ upload_data' = new
                 /\ cache' = Invalidate(cache, d.to_be_removed)
                 /\ tasks' = Append(tasks, NewTask(d.to_be_updated, TRUE,
                                                   upload_data, new))
          /\ version' = version + 1
          /\ liveBytes' = storeBytes
    /\ UNCHANGED <<storeBytes, storeObjects, udReaders, last_upload_hash,
                   pagesGuard, rpc, rloc, lastRet, hubVars, getVars, ccmVars,
                   authBytes, last_auth_hash, auth_realms, auth_users,
                   realmsReaders, apc, aloc, reqVars, hookVars, sideVars>>

\* check_auth: let realms = self.auth_realms.read().await
CheckReadRealms(r) ==
    /\ apc[r] = "idle"
    /\ realmsReaders' = realmsReaders \cup {r}
    /\ aloc' = [aloc EXCEPT ![r] = [NoCheck EXCEPT !.realms = auth_realms]]
    /\ apc' = [apc EXCEPT ![r] = "users"]
    /\ UNCHANGED <<authBytes, last_auth_hash, auth_realms, auth_users, spc,
                   sloc, pagesVars, hubVars, getVars, ccmVars,
                   reqVars, hookVars, sideVars>>

\* let users = self.auth_users.read().await; the uuids of the realm are
\* looked up in it (filter_map drops the ones it lacks), and both guards
\* drop at the end of the block.
CheckReadUsers(r) ==
    /\ apc[r] = "users"
    /\ aloc' = [aloc EXCEPT
                  ![r].users = auth_users,
                  ![r].done = TRUE,
                  ![r].allowed = {auth_users[u] :
                                    u \in aloc[r].realms.uuids
                                          \cap DOMAIN auth_users}]
    /\ realmsReaders' = realmsReaders \ {r}
    /\ apc' = [apc EXCEPT ![r] = "idle"]
    /\ UNCHANGED <<authBytes, last_auth_hash, auth_realms, auth_users, spc,
                   sloc, pagesVars, hubVars, getVars, ccmVars,
                   reqVars, hookVars, sideVars>>

\* ---------------------------- serve_get_head and AuthChecker::check_auth

OtherVars ==
    <<pagesVars, hubVars, getVars, ccmVars, authVars, hookVars, sideVars>>

\* What check_auth returns: the request back, or a response of its own.
Answer(q, status, challenge) ==
    /\ qpc' = [qpc EXCEPT ![q] = "idle"]
    /\ qloc' = [qloc EXCEPT ![q].ret = "ResponseFromAuth",
                            ![q].status = status,
                            ![q].challenge = challenge]

\* check_auth without the early return for a path outside every realm.
CheckAuthRealmNoBypass(q, ip, path, header) ==
    /\ qpc[q] = "idle"
    /\ qloc' = [qloc EXCEPT ![q] =
                  [NoRequest EXCEPT !.ip = ip, !.path = path,
                                    !.header = header,
                                    !.users = {auth_users[u] :
                                                 u \in auth_realms.uuids
                                                       \cap DOMAIN auth_users}]]
    /\ qpc' = [qpc EXCEPT ![q] = "limit"]
    /\ UNCHANGED <<limiter, clock, passed, OtherVars>>

\* serve_get_head calls state.check_auth(&path, req, remote_addr); check_auth
\* reads the realms and the users and looks for the first realm whose
\* pattern the path starts with: none returns AuthConfirmed, otherwise the
\* users of the realm's uuids are kept.
CheckAuthRealm(q, ip, path, header) ==
    /\ qpc[q] = "idle"
    /\ LET req == [NoRequest EXCEPT !.ip = ip, !.path = path,
                                    !.header = header]
       IN  IF starts_with(path, auth_realms.pattern)
           THEN /\ qloc' = [qloc EXCEPT ![q] =
                              [req EXCEPT !.users =
                                 {auth_users[u] :
                                    u \in auth_realms.uuids
                                          \cap DOMAIN auth_users}]]
                /\ qpc' = [qpc EXCEPT ![q] = "limit"]
           ELSE /\ qloc' = [qloc EXCEPT ![q] =
                              [req EXCEPT !.ret = "AuthConfirmed"]]
                /\ qpc' = [qpc EXCEPT ![q] = "get"]
    /\ UNCHANGED <<limiter, clock, passed, OtherVars>>

\* check_auth without the rate limit.
CheckAuthLimitOff(q) ==
    /\ qpc[q] = "limit"
    /\ passed' = [passed EXCEPT ![qloc[q].ip] = @ + 1]
    /\ qpc' = [qpc EXCEPT ![q] = "header"]
    /\ UNCHANGED <<qloc, limiter, clock, OtherVars>>

\* self.rate_limiter.check_key(&ip): a free cell of the IP is taken, and
\* with none free the answer is 429.
CheckAuthLimit(q) ==
    /\ qpc[q] = "limit"
    /\ LET ip == qloc[q].ip
       IN  IF limiter[ip] < Quota
           THEN /\ limiter' = [limiter EXCEPT ![ip] = @ + 1]
                /\ passed' = [passed EXCEPT ![ip] = @ + 1]
                /\ qloc' = [qloc EXCEPT ![q].cells = @ + 1]
                /\ qpc' = [qpc EXCEPT ![q] = "header"]
           ELSE /\ Answer(q, 429, "none")
                /\ UNCHANGED <<limiter, passed>>
    /\ UNCHANGED <<clock, OtherVars>>

\* One replenish interval passes: every IP gets a cell back.
Tick ==
    /\ clock < MaxClock
    /\ clock' = clock + 1
    /\ limiter' = [ip \in IPs |-> IF limiter[ip] > 0 THEN limiter[ip] - 1
                                  ELSE 0]
    /\ UNCHANGED <<qpc, qloc, passed, OtherVars>>

\* headers.get("Authorization"): absent is 401 with the challenge, not a
\* string is 400, without the "Basic " prefix is 401.
CheckAuthHeader(q) ==
    /\ qpc[q] = "header"
    /\ LET h == qloc[q].header
           read == [qloc EXCEPT ![q].headerReads = @ + 1]
       IN  IF ~HeaderPresent(h)
           THEN /\ qpc' = [qpc EXCEPT ![q] = "idle"]
                /\ qloc' = [read EXCEPT ![q].ret = "ResponseFromAuth",
                                        ![q].status = 401,
                                        ![q].challenge = qloc[q].path]
           ELSE IF ~ToStr(h)
           THEN /\ qpc' = [qpc EXCEPT ![q] = "idle"]
                /\ qloc' = [read EXCEPT ![q].ret = "ResponseFromAuth",
                                        ![q].status = 400]
           ELSE IF ~StripPrefixBasic(h)
           THEN /\ qpc' = [qpc EXCEPT ![q] = "idle"]
                /\ qloc' = [read EXCEPT ![q].ret = "ResponseFromAuth",
                                        ![q].status = 401]
           ELSE /\ qpc' = [qpc EXCEPT ![q] = "decode"]
                /\ qloc' = read
    /\ UNCHANGED <<limiter, clock, passed, OtherVars>>

\* The payload is decoded from base64, read as UTF-8 and split at its last
\* colon; each failure is 400.
CheckAuthDecode(q) ==
    /\ qpc[q] = "decode"
    /\ LET h == qloc[q].header
       IN  IF Base64Decode(h) /\ FromUtf8(h) /\ RfindColon(h)
           THEN /\ qpc' = [qpc EXCEPT ![q] = "find"]
                /\ UNCHANGED qloc
           ELSE Answer(q, 400, "none")
    /\ UNCHANGED <<limiter, clock, passed, OtherVars>>

\* The outcome of one verification against hash: the calls of the verifier
\* are counted and the hash is remembered.
Verified(q, hash) ==
    [qloc EXCEPT ![q].verifies = @ + 1, ![q].verified = hash]

\* check_auth answering an unknown username without a verification.
CheckAuthFindNoFake(q) ==
    /\ qpc[q] = "find"
    /\ IF qloc[q].header.username \in qloc[q].users
       THEN /\ qpc' = [qpc EXCEPT ![q] = "verify"]
            /\ UNCHANGED qloc
       ELSE Answer(q, 401, "none")
    /\ UNCHANGED <<limiter, clock, passed, OtherVars>>

\* users.into_iter().find(|x| x.username == provided_username): an unknown
\* username is verified against the fake hash, its outcome dropped, and
\* answered 401.
CheckAuthFind(q) ==
    /\ qpc[q] = "find"
    /\ IF qloc[q].header.username \in qloc[q].users
       THEN /\ qpc' = [qpc EXCEPT ![q] = "verify"]
            /\ UNCHANGED qloc
       ELSE IF ~PasswordHashNew(FAKE_PASSWORD)
       THEN Answer(q, 500, "none")
       ELSE /\ qpc' = [qpc EXCEPT ![q] = "idle"]
            /\ qloc' = [Verified(q, FAKE_PASSWORD) EXCEPT
                          ![q].ret = "ResponseFromAuth", ![q].status = 401]
    /\ UNCHANGED <<limiter, clock, passed, OtherVars>>

\* The password is verified against the stored key of the user: a match
\* returns AuthConfirmed, a mismatch 401, any other error 500.
CheckAuthVerify(q) ==
    /\ qpc[q] = "verify"
    /\ LET key == stored_key(qloc[q].header.username)
           outcome == verify_password(qloc[q].header.password, key)
       IN  IF ~PasswordHashNew(key)
           THEN Answer(q, 500, "none")
           ELSE IF outcome = "Ok"
           THEN /\ qpc' = [qpc EXCEPT ![q] = "get"]
                /\ qloc' = [Verified(q, key) EXCEPT
                              ![q].ret = "AuthConfirmed"]
           ELSE /\ qpc' = [qpc EXCEPT ![q] = "idle"]
                /\ qloc' = [Verified(q, key) EXCEPT
                              ![q].ret = "ResponseFromAuth",
                              ![q].status = IF outcome = "Password"
                                            THEN 401 ELSE 500]
    /\ UNCHANGED <<limiter, clock, passed, OtherVars>>

\* serve_get_head after AuthConfirmed: state.get(&path) is called and its
\* page or the 404 answered.
ServeGet(q) ==
    /\ qpc[q] = "get"
    /\ qpc' = [qpc EXCEPT ![q] = "idle"]
    /\ qloc' = [qloc EXCEPT ![q].got = TRUE]
    /\ UNCHANGED <<limiter, clock, passed, OtherVars>>

\* ------------------------------------------------------- serve_post

\* serve_post that calls check_and_reload for every POST.
ServePostNoGate(h, path, header) ==
    /\ wpc[h] = "idle"
    /\ spc[h] = "idle"
    /\ wloc' = [wloc EXCEPT ![h] = [NoPost EXCEPT !.path = path,
                                                  !.header = header,
                                                  !.called = TRUE]]
    /\ wpc' = [wpc EXCEPT ![h] = "reload"]
    /\ sloc' = [sloc EXCEPT ![h].ret = "none"]
    /\ UNCHANGED <<tigris_token, authBytes, last_auth_hash, auth_realms,
                   auth_users, realmsReaders, spc, apc, aloc, pagesVars,
                   hubVars, getVars, ccmVars, reqVars, sideVars>>

\* serve_post up to its call of state.check_and_reload(): any path but
\* /reload and a missing token are 405, a header that is absent, not a
\* string or without the "Bearer " prefix is 400, another token is 403.
ServePost(h, path, header) ==
    /\ wpc[h] = "idle"
    /\ spc[h] = "idle"
    /\ LET post == [NoPost EXCEPT !.path = path, !.header = header]
           status == IF path # "/reload" THEN 405
                     ELSE IF tigris_token = NoToken THEN 405
                     ELSE IF header.kind = "absent" THEN 400
                     ELSE IF header.kind = "opaque" THEN 400
                     ELSE IF ~StripPrefixBearer(header) THEN 400
                     ELSE IF tigris_token # header.token THEN 403
                     ELSE 0
       IN  IF status = 0
           THEN /\ wloc' = [wloc EXCEPT ![h] = [post EXCEPT !.called = TRUE]]
                /\ wpc' = [wpc EXCEPT ![h] = "reload"]
                /\ sloc' = [sloc EXCEPT ![h].ret = "none"]
           ELSE /\ wloc' = [wloc EXCEPT ![h] = [post EXCEPT !.status = status]]
                /\ UNCHANGED <<wpc, sloc>>
    /\ UNCHANGED <<tigris_token, authBytes, last_auth_hash, auth_realms,
                   auth_users, realmsReaders, spc, apc, aloc, pagesVars,
                   hubVars, getVars, ccmVars, reqVars, sideVars>>

\* state.check_and_reload() has returned: an error is 500, Ok is 200.
ServePostAnswer(h) ==
    /\ wpc[h] = "reload"
    /\ spc[h] = "idle"
    /\ sloc[h].ret # "none"
    /\ wloc' = [wloc EXCEPT ![h].status = IF sloc[h].ret = "Err" THEN 500
                                          ELSE 200]
    /\ wpc' = [wpc EXCEPT ![h] = "idle"]
    /\ UNCHANGED <<tigris_token, pagesVars, hubVars, getVars, ccmVars,
                   authVars, reqVars, sideVars>>

\* ------------------------------------------------------- AuthStorer

StorerPatterns == {"/admin", "/blog"}
StorerNames == {"alice"}
Uuids == 1..MaxUsers

\* The ids of a set as the Vec a caller passes, and the Vecs it may pass.
RECURSIVE VecOf(_)
VecOf(S) ==
    IF S = {} THEN <<>>
    ELSE LET m == CHOOSE x \in S : \A y \in S : x <= y
         IN  <<m>> \o VecOf(S \ {m})
UuidVecs == {VecOf(S) : S \in SUBSET Uuids}

\* list.retain_mut(|uuid| uuid != user)
RECURSIVE Retain(_, _)
Retain(list, user) ==
    IF list = <<>> THEN <<>>
    ELSE IF Head(list) = user THEN Retain(Tail(list), user)
    ELSE <<Head(list)>> \o Retain(Tail(list), user)

\* A map with key k set to v, and with key k removed.
MapInsert(map, k, v) ==
    [x \in DOMAIN map \cup {k} |-> IF x = k THEN v ELSE map[x]]
MapRemove(map, k) == [x \in DOMAIN map \ {k} |-> map[x]]

StorerFrame ==
    UNCHANGED <<pagesVars, hubVars, getVars, ccmVars, authVars, reqVars,
                hookVars, calc, srv>>

\* AuthStorer::add_user: a fresh uuid is given the username and its key.
add_user(username) ==
    /\ storer.made < MaxUsers
    /\ LET uuid == storer.made + 1
       IN  storer' = [storer EXCEPT
                        !.users = MapInsert(@, uuid, username),
                        !.made = uuid,
                        !.last = [op |-> "add_user", id |-> uuid]]
    /\ StorerFrame

\* AuthStorer::rm_user: the id is taken out of every realm's list and out
\* of the users.
rm_user(user) ==
    /\ storer' = [storer EXCEPT
                    !.realms = [r \in DOMAIN @ |-> Retain(@[r], user)],
                    !.users = MapRemove(@, user),
                    !.last = [op |-> "rm_user", id |-> user]]
    /\ StorerFrame

\* AuthStorer::rm_realm
rm_realm(realm) ==
    /\ storer' = [storer EXCEPT
                    !.realms = MapRemove(@, realm),
                    !.last = [op |-> "rm_realm", id |-> 0]]
    /\ StorerFrame

\* AuthStorer::protect: self.realms.insert(pattern, uuids)
protect(pattern, uuids) ==
    /\ Len(uuids) <= MaxList
    /\ storer' = [storer EXCEPT
                    !.realms = MapInsert(@, pattern, uuids),
                    !.last = [op |-> "protect", id |-> 0]]
    /\ StorerFrame

\* AuthStorer::protect_additional:
\* self.realms.entry(pattern).or_default().extend(uuids)
protect_additional(pattern, uuids) ==
    /\ LET old == IF pattern \in DOMAIN storer.realms
                  THEN storer.realms[pattern] ELSE <<>>
       IN  /\ Len(old) + Len(uuids) <= MaxList
           /\ storer' = [storer EXCEPT
                           !.realms = MapInsert(@, pattern, old \o uuids),
                           !.last = [op |-> "protect_additional",
                                     id |-> 0]]
    /\ StorerFrame

\* ---------------------------------------- Caching and the response headers
\* The cache-control policy of cache_control/manager.rs as data: a Directive
\* is a record, an Option<NonEmptyList<_>> is the empty tuple (None) or a
\* one-element tuple holding the list (Some), the overrides are a function
\* from the realms that have an entry to their non-empty lists.
NotFoundMaxAge == 604800

Directives ==
    {[kind |-> "MaxAge", secs |-> 60], [kind |-> "NoCache", secs |-> 0]}

MaxAge(secs) == [kind |-> "MaxAge", secs |-> secs]

\* impl Display for Directive.
DirectiveToString(d) ==
    CASE d.kind = "MaxAge" -> "max-age=" \o ToString(d.secs)
      [] d.kind = "NoCache" -> "no-cache"
      [] d.kind = "MustRevalidate" -> "must-revalidate"
      [] d.kind = "NoStore" -> "no-store"
      [] OTHER -> "stale-while-revalidate"

DirectiveVecs == UNION {[1..k -> Directives] : k \in 0..MaxList}

\* NonEmptyList::new: None for the empty Vec, Some(list) otherwise.
NonEmptyListNew(list) == IF list = <<>> THEN <<>> ELSE <<list>>

NonEmptyLists == DirectiveVecs \ {<<>>}

CcRealms ==
    {[kind |-> "StartsWith", pat |-> "/admin"],
     [kind |-> "EndsWith", pat |-> "/index.html"]}

PathHeads == {"", "/admin"}

ends_with(path, pattern) == \E head \in PathHeads : path = head \o pattern

\* Realm::matches.
matches(realm, path) ==
    CASE realm.kind = "StartsWith" -> starts_with(path, realm.pat)
      [] OTHER -> ends_with(path, realm.pat)

\* The values of struct Caching.
Cachings ==
    UNION {[default : {<<>>} \cup {<<l>> : l \in NonEmptyLists},
            overrides : [R -> NonEmptyLists]] : R \in SUBSET CcRealms}

\* The values of struct StoredCaching: any Vec for the default, any Vec of
\* (Realm, Vec) pairs for the overrides, a realm twice included.
StoredEntries == CcRealms \X DirectiveVecs

StoredCachings ==
    [default : DirectiveVecs,
     overrides : UNION {[1..k -> StoredEntries] :
                            k \in 0..Cardinality(CcRealms)}]

\* The orders in which iterating a HashMap with these keys can yield them.
IterOrders(keys) ==
    {o \in [1..Cardinality(keys) -> keys] : Range(o) = keys}

\* impl From<Caching> for StoredCaching, the map iterated in `order`.
IntoStoredCaching(value, order) ==
    [default |-> IF value.default = <<>> THEN <<>> ELSE value.default[1],
     overrides |-> [i \in 1..Len(order) |->
                        <<order[i], value.overrides[order[i]]>>]]

RECURSIVE CollectOverrides(_, _)
\* .flat_map(|(realm, dirs)| NonEmptyList::new(dirs).map(..)).collect() into
\* the HashMap: pairs with an empty list fall out, a later pair with the
\* same realm replaces the earlier one.
CollectOverrides(pairs, map) ==
    IF pairs = <<>> THEN map
    ELSE LET realm == Head(pairs)[1]
             nel == NonEmptyListNew(Head(pairs)[2])
         IN  CollectOverrides(Tail(pairs),
                 IF nel = <<>> THEN map ELSE MapInsert(map, realm, nel[1]))

\* The conversion with the empty lists kept: Some for every default, the
\* last list of a realm whatever its length.
IntoCachingKeepsEmpty(value) ==
    [default |-> <<value.default>>,
     overrides |->
         [r \in {e[1] : e \in Range(value.overrides)} |->
             LET last == CHOOSE i \in 1..Len(value.overrides) :
                             /\ value.overrides[i][1] = r
                             /\ \A j \in (i + 1)..Len(value.overrides) :
                                    value.overrides[j][1] # r
             IN  value.overrides[last][2]]]

\* impl From<StoredCaching> for Caching.
IntoCaching(value) ==
    [default |-> NonEmptyListNew(value.default),
     overrides |-> CollectOverrides(value.overrides, <<>>)]

RECURSIVE FlatMapMatching(_, _, _)
\* .iter().filter(|(realm, _)| realm.matches(path)).flat_map(..).collect()
FlatMapMatching(caching, path, order) ==
    IF order = <<>> THEN <<>>
    ELSE (IF matches(Head(order), path)
          THEN caching.overrides[Head(order)] ELSE <<>>)
         \o FlatMapMatching(caching, path, Tail(order))

\* A lookup that adds the default whatever the overrides gave.
get_directives_with_default(caching, path, order) ==
    FlatMapMatching(caching, path, order)
        \o (IF caching.default # <<>> THEN caching.default[1] ELSE <<>>)

\* Caching::get_cache_control_directives.
get_cache_control_directives(caching, path, order) ==
    LET from_map == FlatMapMatching(caching, path, order)
    IN  IF from_map = <<>>
        THEN IF caching.default # <<>> THEN caching.default[1] ELSE <<>>
        ELSE from_map

RECURSIVE directives_to_header(_)
\* Directive::directives_to_header: the tokens joined with ", ".
directives_to_header(directives) ==
    IF Len(directives) = 1 THEN DirectiveToString(directives[1])
    ELSE DirectiveToString(Head(directives)) \o ", "
             \o directives_to_header(Tail(directives))

Methods == {"GET", "HEAD"}

\* What Pages::get can return for a request: the page from the cache or
\* from the read-through (200), or the cached 404 page.
PageKinds == {"cached", "backfill", "not_found"}

\* The PageOutput that Pages::get builds.
PageOutput(kind, caching, path, order) ==
    IF kind = "not_found"
    THEN [status |-> 404, content |-> "404.html",
          cache_control |-> <<MaxAge(NotFoundMaxAge)>>]
    ELSE [status |-> 200, content |-> path,
          cache_control |-> get_cache_control_directives(caching, path, order)]

\* PageOutput::into_response.
into_response(output, req_method) ==
    LET cc == NonEmptyListNew(output.cache_control)
    IN  [status |-> output.status,
         content_length |-> output.content,
         cache_control |-> IF cc = <<>> THEN "absent"
                           ELSE directives_to_header(cc[1]),
         body |-> IF req_method = "HEAD" THEN "" ELSE output.content]

\* The policy a call is made on: one held in memory, or one found stored.
CalcInputs ==
    {[op |-> "caching", caching |-> c] : c \in Cachings}
        \cup {[op |-> "stored", stored |-> s] : s \in StoredCachings}

CalcFrame ==
    UNCHANGED <<pagesVars, hubVars, getVars, ccmVars, authVars, reqVars,
                hookVars, storer, srv>>

\* CacheControlManager::get_directives on the loaded policy.
get_directives(path) ==
    /\ calc.op = "caching"
    /\ \E order \in IterOrders(DOMAIN calc.caching.overrides) :
         calc' = [op |-> "lookup", caching |-> calc.caching, path |-> path,
                  order |-> order,
                  out |-> get_cache_control_directives(
                              calc.caching, path, order)]
    /\ CalcFrame

\* Caching::save followed by Caching::construct_from_bytes of what it wrote.
save ==
    /\ calc.op = "caching"
    /\ \E order \in IterOrders(DOMAIN calc.caching.overrides) :
         calc' = [op |-> "save", caching |-> calc.caching,
                  stored |-> IntoStoredCaching(calc.caching, order),
                  back |-> IntoCaching(
                               IntoStoredCaching(calc.caching, order))]
    /\ CalcFrame

\* Caching::construct_from_bytes of the stored policy, then Caching::save.
load ==
    /\ calc.op = "stored"
    /\ \E order \in IterOrders(DOMAIN IntoCaching(calc.stored).overrides) :
         calc' = [op |-> "load", stored |-> calc.stored,
                  caching |-> IntoCaching(calc.stored),
                  again |-> IntoStoredCaching(
                                IntoCaching(calc.stored), order)]
    /\ CalcFrame

\* Pages::get and PageOutput::into_response for one GET or HEAD.
respond(kind, path, req_method) ==
    /\ calc.op = "caching"
    /\ \E order \in IterOrders(DOMAIN calc.caching.overrides) :
         calc' = [op |-> "respond", kind |-> kind, caching |-> calc.caching,
                  path |-> path, order |-> order,
                  resp |-> into_response(
                      PageOutput(kind, calc.caching, path, order),
                      req_method)]
    /\ CalcFrame

\* ------------------------------------------------------- NonEmptyList

\* A NonEmptyList is its length, its capacity and the allocation of `cap`
\* slots behind ptr; the slots from len on are uninitialised or stale.
Uninit == "uninit"
Panic == "panic"
Elems == {"a", "b"}

Vecs == UNION {[1..n -> Elems] : n \in 0..MaxLen}

Slots(n) == [i \in 1..n |-> Uninit]

\* from_non_empty_vec: the Vec's length, capacity and pointer are taken over.
from_non_empty_vec(list, cap) ==
    [len |-> Len(list), cap |-> cap, buf |-> list \o Slots(cap - Len(list))]

\* NonEmptyList::new: None for an empty Vec.
list_new(list, cap) ==
    IF list = <<>> THEN <<>> ELSE <<from_non_empty_vec(list, cap)>>

\* TryFrom<NonEmptyListBuilder>: Err(value) for an empty builder.
try_from(value, cap) ==
    IF value = <<>> THEN [tag |-> "Err", list |-> <<>>]
    ELSE [tag |-> "Ok", list |-> <<from_non_empty_vec(value, cap)>>]

\* checked_next_power_of_two
NextPowerOfTwo(n) ==
    CHOOSE q \in {2 ^ k : k \in 0..6} :
        q >= n /\ \A r \in {2 ^ k : k \in 0..6} : r >= n => q <= r

\* grow_at_least: realloc to the next power of two from cap + extra; the
\* old contents are kept. The sizes here are far from isize::MAX.
grow_at_least(self, extra) ==
    LET new_cap == NextPowerOfTwo(self.cap + extra)
    IN  [self EXCEPT !.cap = new_cap,
                     !.buf = self.buf \o Slots(new_cap - self.cap)]

push(self, el) ==
    LET grown == IF self.len >= self.cap THEN grow_at_least(self, 1)
                 ELSE self
    IN  [grown EXCEPT !.buf[self.len + 1] = el, !.len = self.len + 1]

\* A remove that does not look at the length.
remove_unchecked(self, index) ==
    IF index >= self.len THEN [list |-> <<self>>, ret |-> Panic]
    ELSE [list |-> << [self EXCEPT
                         !.buf = [i \in 1..self.cap |->
                                     IF i >= index + 1 /\ i <= self.len - 1
                                     THEN self.buf[i + 1] ELSE self.buf[i]],
                         !.len = self.len - 1] >>,
          ret |-> self.buf[index + 1]]

\* remove: both panics come before any write; then the tail is copied down
\* by one slot (src.copy_to(dst, count)) and len is decremented.
remove(self, index) ==
    IF index >= self.len THEN [list |-> <<self>>, ret |-> Panic]
    ELSE IF self.len <= 1 THEN [list |-> <<self>>, ret |-> Panic]
    ELSE [list |-> << [self EXCEPT
                         !.buf = [i \in 1..self.cap |->
                                     IF i >= index + 1 /\ i <= self.len - 1
                                     THEN self.buf[i + 1] ELSE self.buf[i]],
                         !.len = self.len - 1] >>,
          ret |-> self.buf[index + 1]]

\* swap_remove: the last element is written over the removed one.
swap_remove(self, index) ==
    IF index >= self.len THEN [list |-> <<self>>, ret |-> Panic]
    ELSE IF self.len <= 1 THEN [list |-> <<self>>, ret |-> Panic]
    ELSE [list |-> << [self EXCEPT
                         !.buf[index + 1] = self.buf[self.len],
                         !.len = self.len - 1] >>,
          ret |-> self.buf[index + 1]]

\* The loop of extend: grow by one when full, write, len += 1.
RECURSIVE ExtendLoop(_, _)
ExtendLoop(self, iter) ==
    IF iter = <<>> THEN self
    ELSE LET grown == IF self.len = self.cap THEN grow_at_least(self, 1)
                      ELSE self
         IN  ExtendLoop([grown EXCEPT !.buf[self.len + 1] = Head(iter),
                                      !.len = self.len + 1],
                        Tail(iter))

\* extend: with an upper size hint that is not zero the list first grows by
\* it; without one it grows by the lower hint, which is zero here.
extend(self, iter, hinted) ==
    ExtendLoop(IF hinted /\ iter # <<>>
               THEN grow_at_least(self, Len(iter)) ELSE self,
               iter)

\* Vec::from(self) keeps the elements and the capacity.
IntoVec(self) == SubSeq(self.buf, 1, self.len)

\* retain: into a Vec, Vec::retain_mut, Self::new.
retain(self, keep) ==
    list_new(SelectSeq(IntoVec(self), LAMBDA el : el \in keep), self.cap)

\* Index::index
IndexAt(self, index) ==
    IF index >= self.len THEN Panic ELSE self.buf[index + 1]

Call(name, arg, list, ret) ==
    [op |-> "list", list |-> list, call |-> name, arg |-> arg, ret |-> ret]

\* The capacities a Vec of this length may come with.
VecCaps(list) == {Len(list), Len(list) + 1}

CallNew(list) ==
    /\ calc.op = "list"
    /\ calc.list = <<>>
    /\ \E cap \in VecCaps(list) :
         calc' = Call("new", list, list_new(list, cap), "none")
    /\ CalcFrame

CallTryFrom(value) ==
    /\ calc.op = "list"
    /\ calc.list = <<>>
    /\ \E cap \in VecCaps(value) :
         calc' = Call("try_from", value, try_from(value, cap).list,
                      try_from(value, cap).tag)
    /\ CalcFrame

CallPush(el) ==
    /\ calc.op = "list"
    /\ calc.list # <<>>
    /\ calc.list[1].len < MaxLen
    /\ calc' = Call("push", el, <<push(calc.list[1], el)>>, "none")
    /\ CalcFrame

CallExtend(iter, hinted) ==
    /\ calc.op = "list"
    /\ calc.list # <<>>
    /\ calc.list[1].len + Len(iter) <= MaxLen
    /\ extend(calc.list[1], iter, hinted).cap <= MaxCap
    /\ calc' = Call("extend", iter, <<extend(calc.list[1], iter, hinted)>>,
                    "none")
    /\ CalcFrame

CallRemove(index) ==
    /\ calc.op = "list"
    /\ calc.list # <<>>
    /\ LET r == remove(calc.list[1], index)
       IN  calc' = Call("remove", index, r.list, r.ret)
    /\ CalcFrame

CallSwapRemove(index) ==
    /\ calc.op = "list"
    /\ calc.list # <<>>
    /\ LET r == swap_remove(calc.list[1], index)
       IN  calc' = Call("swap_remove", index, r.list, r.ret)
    /\ CalcFrame

CallRetain(keep) ==
    /\ calc.op = "list"
    /\ calc.list # <<>>
    /\ calc' = Call("retain", keep, retain(calc.list[1], keep), "none")
    /\ CalcFrame

CallIndex(index) ==
    /\ calc.op = "list"
    /\ calc.list # <<>>
    /\ calc' = Call("index", index, calc.list,
                    IndexAt(calc.list[1], index))
    /\ CalcFrame

\* ------------------------------------------------ upload_dir_to_bucket

\* The local tree the uploader is pointed at: one directory with a
\* subdirectory, and another directory. A file's key is its path as WalkDir
\* yields it, the directory argument included.
Dirs == {"site", "site/sub", "alt"}
Files == {"site/a", "site/sub/b", "alt/a"}
FileContents == {"x", "y"}

\* WalkDir::new(dir), files only.
WalkDir(dir) ==
    CASE dir = "site" -> {"site/a", "site/sub/b"}
      [] dir = "site/sub" -> {"site/sub/b"}
      [] dir = "alt" -> {"alt/a"}

\* read_fs_file: the lower-hex rendering of the digest of the contents.
EntryHash(contents) == <<"hex", hash_raw_bytes(contents)>>

Restrict(f, S) == [k \in S |-> f[k]]

\* The first half of upload_dir_to_bucket: the previous manifest (or the
\* default one), the files read, and the three collections. With dir ==
\* root the unchanged files are skipped and the keys seen are taken out of
\* to_delete; with any other dir every file is written and to_delete stays
\* every key of the previous manifest.
Collect(dir, fs, existing) ==
    LET seen == WalkDir(dir)
        existing_entries == existing.entries
    IN  [entries |-> [k \in seen |-> EntryHash(fs[k])],
         to_write |->
             IF dir = existing.root
             THEN Restrict(fs, {k \in seen :
                                  \/ k \notin DOMAIN existing_entries
                                  \/ existing_entries[k] # EntryHash(fs[k])})
             ELSE Restrict(fs, seen),
         to_delete |->
             IF dir = existing.root
             THEN DOMAIN existing_entries \ seen
             ELSE DOMAIN existing_entries]

Uploading(pc, dir, objects, manifest, c) ==
    [op |-> "upload", pc |-> pc, dir |-> dir, objects |-> objects,
     manifest |-> manifest, entries |-> c.entries, to_write |-> c.to_write,
     to_delete |-> c.to_delete]

NoCollect == [entries |-> <<>>, to_write |-> <<>>, to_delete |-> {}]

\* upload_dir_to_bucket(dir, bucket) up to `Read all files`.
UploadRead(dir, fs) ==
    /\ calc.op = "upload"
    /\ calc.pc \in {"idle", "done", "failed"}
    /\ calc' = Uploading("write", dir, calc.objects, calc.manifest,
                         Collect(dir, fs, calc.manifest))
    /\ CalcFrame

\* One write_file_to_bucket of the FuturesUnordered completes.
UploadWrite(k) ==
    /\ calc.op = "upload"
    /\ calc.pc = "write"
    /\ k \in DOMAIN calc.to_write
    /\ calc' = [calc EXCEPT
                  !.objects[k] = calc.to_write[k],
                  !.to_write = Restrict(calc.to_write,
                                        DOMAIN calc.to_write \ {k})]
    /\ CalcFrame

\* The manifest is put once every write has completed.
UploadPublish ==
    /\ calc.op = "upload"
    /\ calc.pc = "write"
    /\ DOMAIN calc.to_write = {}
    /\ calc' = [calc EXCEPT
                  !.manifest = [root |-> calc.dir, entries |-> calc.entries],
                  !.pc = "delete"]
    /\ CalcFrame

\* for path in to_delete: bucket.delete_object(path)
UploadDelete(k) ==
    /\ calc.op = "upload"
    /\ calc.pc = "delete"
    /\ k \in calc.to_delete
    /\ calc' = [calc EXCEPT !.objects[k] = NoObject,
                            !.to_delete = calc.to_delete \ {k}]
    /\ CalcFrame

\* Ok(())
UploadDone ==
    /\ calc.op = "upload"
    /\ calc.pc = "delete"
    /\ calc.to_delete = {}
    /\ calc' = [calc EXCEPT !.pc = "done"]
    /\ CalcFrame

\* A request to the bucket fails and `?` returns the error.
UploadFails ==
    /\ calc.op = "upload"
    /\ \/ calc.pc = "write"
       \/ calc.pc = "delete" /\ calc.to_delete # {}
    /\ calc' = [calc EXCEPT !.pc = "failed"]
    /\ CalcFrame

\* ------------------------------------------------ ServeService::call

CallMethods == {"GET", "POST", "DELETE"}

NoCall ==
    [pc |-> "none", method |-> "none", path |-> "none", upgrade |-> FALSE,
     handshake |-> FALSE, status |-> 0, route |-> "none"]

Called(c, pc, method, path, upgrade, handshake, status, route, permits) ==
    [calc EXCEPT
       !.permits = permits,
       !.req[c] = [pc |-> pc, method |-> method, path |-> path,
                   upgrade |-> upgrade, handshake |-> handshake,
                   status |-> status, route |-> route]]

\* A call that runs every request through the method dispatch.
call_dispatch_first(c, method, path, upgrade, handshake) ==
    /\ calc.op = "call"
    /\ calc.req[c].pc = "none"
    /\ calc' =
         IF calc.permits = 0
         THEN Called(c, "done", method, path, upgrade, handshake, 429,
                     "none", calc.permits)
         ELSE IF method = "POST"
         THEN Called(c, "routed", method, path, upgrade, handshake, 0,
                     "serve_post", calc.permits - 1)
         ELSE IF method \in {"GET", "HEAD"}
         THEN Called(c, "routed", method, path, upgrade, handshake, 0,
                     "serve_get_head", calc.permits - 1)
         ELSE Called(c, "done", method, path, upgrade, handshake, 405,
                     "none", calc.permits)
    /\ CalcFrame

\* call: a permit is tried first and its absence answered 429. An upgrade
\* request then goes through the handshake: its response is returned and
\* the attach is spawned with the permit, or the answer is 500. Any other
\* request is dispatched on its method with the permit held until the
\* answer.
call(c, method, path, upgrade, handshake) ==
    /\ calc.op = "call"
    /\ calc.req[c].pc = "none"
    /\ calc' =
         IF calc.permits = 0
         THEN Called(c, "done", method, path, upgrade, handshake, 429,
                     "none", calc.permits)
         ELSE IF upgrade
         THEN IF handshake
              THEN Called(c, "task", method, path, upgrade, handshake, 101,
                          "none", calc.permits - 1)
              ELSE Called(c, "done", method, path, upgrade, handshake, 500,
                          "none", calc.permits)
         ELSE IF method = "POST"
         THEN Called(c, "routed", method, path, upgrade, handshake, 0,
                     "serve_post", calc.permits - 1)
         ELSE IF method \in {"GET", "HEAD"}
         THEN Called(c, "routed", method, path, upgrade, handshake, 0,
                     "serve_get_head", calc.permits - 1)
         ELSE Called(c, "done", method, path, upgrade, handshake, 405,
                     "none", calc.permits)
    /\ CalcFrame

\* serve_post or serve_get_head has answered; the permit drops.
CallAnswered(c) ==
    /\ calc.op = "call"
    /\ calc.req[c].pc = "routed"
    /\ calc' = [calc EXCEPT !.req[c].pc = "done",
                            !.permits = calc.permits + 1]
    /\ CalcFrame

\* The spawned task: handle_livereload locks the hub and pushes.
TaskAttach(c) ==
    /\ calc.op = "call"
    /\ calc.req[c].pc = "task"
    /\ AttachLock(c) \/ AttachPush(c)

\* handle_livereload returned Ok: drop(permit).
TaskDrop(c) ==
    /\ calc.op = "call"
    /\ calc.req[c].pc = "task"
    /\ c \in Range(senders)
    /\ calc' = [calc EXCEPT !.req[c].pc = "done",
                            !.permits = calc.permits + 1]
    /\ CalcFrame

\* hyper::upgrade::on(req).await? fails: the error is logged and the
\* permit drops, with nothing pushed.
TaskUpgradeFails(c) ==
    /\ calc.op = "call"
    /\ calc.req[c].pc = "task"
    /\ peer[c] = "unborn"
    /\ calc' = [calc EXCEPT !.req[c].pc = "done",
                            !.permits = calc.permits + 1]
    /\ CalcFrame

\* ------------------------------------- the locks of the AuthChecker

\* auth_realms and auth_users are tokio RwLocks behind Arcs shared by every
\* clone of the AuthChecker. A tokio RwLock queues its waiters first come
\* first served: a reader arriving behind a waiting writer waits for it.
AuthLocks == {"auth_realms", "auth_users"}

AuthOps ==
    {"check_auth", "reload", "rm_user", "protect",
     "get_patterns_and_usernames", "save_to_s3"}

OpIds == 1..MaxOps

Acq(lock, mode) == [act |-> "acquire", lock |-> lock, mode |-> mode]
Rel(lock) == [act |-> "release", lock |-> lock, mode |-> "none"]

\* The guards each operation takes and drops, in the order of its code. A
\* guard bound with `let` drops at the end of its block, after the guards
\* bound later; a guard that is a temporary drops at the end of its
\* statement.
Program(name) ==
    CASE name = "check_auth" ->
           << Acq("auth_realms", "read"), Acq("auth_users", "read"),
              Rel("auth_users"), Rel("auth_realms") >>
      [] name = "reload" ->
           << Acq("auth_realms", "write"), Rel("auth_realms"),
              Acq("auth_users", "write"), Rel("auth_users") >>
      [] name = "rm_user" ->
           << Acq("auth_realms", "write"), Acq("auth_users", "write"),
              Rel("auth_users"), Rel("auth_realms") >>
      [] name = "protect" ->
           << Acq("auth_realms", "write"), Rel("auth_realms") >>
      [] name = "get_patterns_and_usernames" ->
           << Acq("auth_users", "read"), Acq("auth_realms", "read"),
              Rel("auth_realms"), Rel("auth_users") >>
      [] name = "save_to_s3" ->
           << Acq("auth_users", "read"), Acq("auth_realms", "read"),
              Rel("auth_realms"), Rel("auth_users") >>

NoOp == [name |-> "none", at |-> 0]

CurrentStep(o) == Program(calc.ops[o].name)[calc.ops[o].at]

Running(o) ==
    /\ calc.ops[o].name # "none"
    /\ calc.ops[o].at <= Len(Program(calc.ops[o].name))

Queued(o, lock) == \E i \in 1..Len(calc.queue[lock]) : calc.queue[lock][i] = o

\* The head of the queue gets the lock when no holder is in its way.
Grantable(o, lock) ==
    /\ calc.queue[lock] # <<>>
    /\ Head(calc.queue[lock]) = o
    /\ IF CurrentStep(o).mode = "write"
       THEN calc.held[lock] = {}
       ELSE \A h \in calc.held[lock] : h[2] = "read"

\* An operation is called.
OpStart(o, name) ==
    /\ calc.op = "locks"
    /\ calc.ops[o].name = "none"
    /\ calc' = [calc EXCEPT !.ops[o] = [name |-> name, at |-> 1]]
    /\ CalcFrame

\* lock.read().await or lock.write().await is polled: the operation joins
\* the queue of the lock.
LockRequest(o) ==
    /\ calc.op = "locks"
    /\ Running(o)
    /\ CurrentStep(o).act = "acquire"
    /\ ~Queued(o, CurrentStep(o).lock)
    /\ calc' = [calc EXCEPT !.queue[CurrentStep(o).lock] = Append(@, o)]
    /\ CalcFrame

\* The guard is handed out.
LockGrant(o) ==
    /\ calc.op = "locks"
    /\ Running(o)
    /\ CurrentStep(o).act = "acquire"
    /\ Grantable(o, CurrentStep(o).lock)
    /\ calc' = [calc EXCEPT
                  !.queue[CurrentStep(o).lock] = Tail(@),
                  !.held[CurrentStep(o).lock] =
                      @ \cup {<<o, CurrentStep(o).mode>>},
                  !.ops[o].at = @ + 1]
    /\ CalcFrame

\* A guard drops.
LockRelease(o) ==
    /\ calc.op = "locks"
    /\ Running(o)
    /\ CurrentStep(o).act = "release"
    /\ calc' = [calc EXCEPT
                  !.held[CurrentStep(o).lock] =
                      {h \in @ : h[1] # o},
                  !.ops[o].at = @ + 1]
    /\ CalcFrame

\* The operation returns.
OpReturn(o) ==
    /\ calc.op = "locks"
    /\ calc.ops[o].name # "none"
    /\ ~Running(o)
    /\ calc' = [calc EXCEPT !.ops[o] = NoOp]
    /\ CalcFrame

\* ------------------------------------------------- serve and shutdown
\* serve() of serve.rs: the accept loop with its JoinSet of connection
\* tasks, the shutdown_signal future polled by the same select!, the
\* interval task of the timer mode, and the final futures.shutdown() raced
\* against the ten-second sleep.
Conns == 1..MaxConns

\* `if state.tigris_token.is_none()`: the timer mode, else the webhook mode.
ReloaderOf(token) == IF token = NoToken THEN "Interval" ELSE "Waiting"

Serving(token) ==
    [pc |-> "accept",
     reloader |-> ReloaderOf(token),
     interval |-> IF token = NoToken THEN "running" ELSE "none",
     sig |-> "waiting",
     send_stop |-> FALSE,
     stop_dead_check |-> FALSE,
     conns |-> [k \in Conns |-> "none"],
     timer |-> "unset"]

ServeFrame ==
    UNCHANGED <<pagesVars, getVars, ccmVars, authVars, reqVars, hookVars,
                storer, calc>>

\* listener.accept() wins the select!: the connection is spawned on the
\* JoinSet.
accept(k) ==
    /\ srv.pc = "accept"
    /\ srv.conns[k] = "none"
    /\ srv' = [srv EXCEPT !.conns[k] = "running"]
    /\ ServeFrame /\ UNCHANGED hubVars

\* A connection task runs to its end.
ConnDone(k) ==
    /\ srv.pc # "none"
    /\ srv.conns[k] = "running"
    /\ srv' = [srv EXCEPT !.conns[k] = "finished"]
    /\ ServeFrame /\ UNCHANGED hubVars

\* A connection asks for the upgrade and is attached to the hub.
ConnAttach(c) ==
    /\ srv.pc # "none"
    /\ \E k \in Conns : srv.conns[k] = "running"
    /\ AttachLock(c) \/ AttachPush(c)

\* shutdown_signal: ctrl_c or terminate completes.
ctrl_c ==
    /\ srv.pc = "accept"
    /\ srv.sig = "waiting"
    /\ srv' = [srv EXCEPT !.sig = "received"]
    /\ ServeFrame /\ UNCHANGED hubVars

\* Reloader::Interval: send.send(()).
IntervalSendStop ==
    /\ srv.pc = "accept"
    /\ srv.sig = "received"
    /\ srv.reloader = "Interval"
    /\ srv' = [srv EXCEPT !.sig = "stopping", !.send_stop = TRUE]
    /\ ServeFrame /\ UNCHANGED hubVars

\* The interval task, back in its select!, receives the stop and breaks.
IntervalBreak ==
    /\ srv.pc # "none"
    /\ srv.interval = "running"
    /\ srv.send_stop
    /\ spc["hook1"] = "idle"
    /\ srv' = [srv EXCEPT !.interval = "stopped", !.send_stop = FALSE]
    /\ ServeFrame /\ UNCHANGED hubVars

\* Reloader::Interval: handle.await returns, shutdown_signal is done and
\* the select! arm breaks the accept loop.
IntervalJoined ==
    /\ srv.pc = "accept"
    /\ srv.sig = "stopping"
    /\ srv.reloader = "Interval"
    /\ srv.interval = "stopped"
    /\ srv' = [srv EXCEPT !.sig = "done", !.pc = "shutdown"]
    /\ ServeFrame /\ UNCHANGED hubVars

\* Reloader::Waiting, LiveReloader::send_stop: stop_dead_check.send(()).
SendStopSignal ==
    /\ srv.pc = "accept"
    /\ srv.sig = "received"
    /\ srv.reloader = "Waiting"
    /\ srv' = [srv EXCEPT !.sig = "stopping", !.stop_dead_check = TRUE]
    /\ ServeFrame /\ UNCHANGED hubVars

\* stop(sender): close, with Err(Closed) counted as Ok.
StopCalls(peerState) == <<"close">>

\* LiveReloader::send_stop: the list is taken under the lock and every
\* sender in it is closed; shutdown_signal is done and the select! arm
\* breaks the accept loop.
SendStopTake ==
    /\ srv.pc = "accept"
    /\ srv.sig = "stopping"
    /\ srv.reloader = "Waiting"
    /\ hubLock = HubFree
    /\ senders' = <<>>
    /\ clientLog' = [c \in Clients |->
                        IF c \in Range(senders)
                        THEN clientLog[c] \o StopCalls(peer[c])
                        ELSE clientLog[c]]
    /\ peer' = [c \in Clients |->
                   IF c \in Range(senders) /\ peer[c] = "alive"
                   THEN "stopped" ELSE peer[c]]
    /\ srv' = [srv EXCEPT !.sig = "done", !.pc = "shutdown"]
    /\ ServeFrame /\ UNCHANGED <<hubLock, sweepPc>>

\* The dead-check task, in its select!, receives the stop and breaks.
SweepBreak ==
    /\ srv.pc # "none"
    /\ sweepPc = "sleep"
    /\ srv.stop_dead_check
    /\ sweepPc' = "stopped"
    /\ srv' = [srv EXCEPT !.stop_dead_check = FALSE]
    /\ ServeFrame /\ UNCHANGED <<senders, hubLock, peer, clientLog>>

\* The hub while the server runs.
ServeHub ==
    /\ srv.pc # "none"
    /\ \/ \E c \in Clients, how \in {"closed", "broken"} : PeerGoes(c, how)
       \/ SweepLock
       \/ SweepCheck

\* futures.shutdown() is polled: JoinSet::abort_all, every task still
\* running is aborted, and the ten-second sleep starts beside it.
JoinSetShutdown ==
    /\ srv.pc = "shutdown"
    /\ srv' = [srv EXCEPT
                 !.pc = "drain",
                 !.timer = "running",
                 !.conns = [k \in Conns |->
                               IF srv.conns[k] = "running"
                               THEN "aborted" ELSE srv.conns[k]]]
    /\ ServeFrame /\ UNCHANGED hubVars

\* futures.shutdown() returns: every task has been joined.
AllClosed ==
    /\ srv.pc = "drain"
    /\ srv' = [srv EXCEPT !.pc = "done"]
    /\ ServeFrame /\ UNCHANGED hubVars

\* The ten-second sleep wins the select!.
TimedOut ==
    /\ srv.pc = "drain"
    /\ srv' = [srv EXCEPT !.pc = "done", !.timer = "elapsed"]
    /\ ServeFrame /\ UNCHANGED hubVars

\* --------------------------------------------------- specifications

ReloadStep(p) ==
    \/ PagesTryLock(p) \/ PagesFetch(p) \/ PagesSame(p) \/ PagesReadOld(p)
    \/ PagesSwap(p) \/ PagesInvalidate(p) \/ PagesSpawn(p)

LoadStep(t) ==
    \/ \E k \in AllKeys : TaskFetch(t, k)
    \/ \E k \in AllKeys : TaskInsert(t, k)
    \/ TaskLoaded(t)

NotifyStep(t) ==
    \/ SendReloadTryLock(t)
    \/ SendReloadDone(t)

HubStep ==
    \/ \E c \in Clients :
         \/ AttachLock(c) \/ AttachPush(c)
         \/ \E how \in {"closed", "broken"} : PeerGoes(c, how)
    \/ SweepLock
    \/ SweepCheck

GetStep(g) ==
    \/ \E path \in Paths : GetRoot(g, path)
    \/ GetLookup(g) \/ GetEntries(g) \/ GetReadThrough(g)

CcmStep(p) ==
    \/ CcmTryLock(p) \/ CcmFetch(p) \/ CcmSame(p) \/ CcmRecord(p)
    \/ CcmInstall(p)

StateStep(h) ==
    \/ StateHashAuth(h) \/ StateCompareAuth(h) \/ StateRecordAuth(h)
    \/ AuthReloadRead(h) \/ AuthWriteRealms(h) \/ AuthWriteUsers(h)
    \/ StateManifest(h)

CheckStep(r) == CheckReadRealms(r) \/ CheckReadUsers(r)

\* The delta loads: task 1 is the warm-up of Pages::new.
DeltaTasks == 2..(MaxTasks + 1)

\* The whole serving plane.
Next ==
    \/ \E b \in ManifestBytes : Upload(b)
    \/ \E p \in Reloaders : ReloadStep(p)
    \/ \E t \in 1..(MaxTasks + 1) :
         LoadStep(t) \/ NotifyStep(t) \/ \E c \in Clients : SendReloadOne(t, c)
    \/ HubStep
    \/ \E g \in Getters : GetStep(g)
    \/ \E b \in CcBytes : CcUpload(b)
    \/ \E p \in Reloaders : CcmStep(p)
    \/ \E b \in AuthBytes : AuthUpload(b)
    \/ \E h \in Hooks : StateStep(h)
    \/ \E r \in Checkers : CheckStep(r)

Spec == Init /\ [][Next]_vars

\* One trigger, its reloads and their delta loads, with no client on the hub
\* and the warm-up task not yet scheduled.
DeltaNext ==
    \/ \E b \in {"m2", "m3"} : Upload(b)
    \/ ReloadStep("tick")
    \/ \E t \in DeltaTasks : LoadStep(t) \/ NotifyStep(t)

SpecDelta == Init /\ [][DeltaNext]_vars

\* The clients that connect while a reload is under way: all but the last.
NotifyClients == 1..(MaxClients - 1)

\* One trigger, one new manifest, the delta loads and the hub with the
\* clients that connect meanwhile.
NotifyNext ==
    \/ Upload("m2")
    \/ ReloadStep("tick")
    \/ \E t \in DeltaTasks :
         LoadStep(t) \/ NotifyStep(t)
            \/ \E c \in NotifyClients : SendReloadOne(t, c)
    \/ \E c \in NotifyClients :
         \/ AttachLock(c) \/ AttachPush(c)
         \/ \E how \in {"closed", "broken"} : PeerGoes(c, how)
    \/ SweepLock
    \/ SweepCheck

SpecNotify == Init /\ [][NotifyNext]_vars

\* The hub alone: clients connect and go away between the sweeps of the
\* dead-check task.
SpecSweep == Init /\ [][HubStep]_vars

\* Requests against one trigger's reloads; no background task is scheduled.
GetNext ==
    \/ \E b \in ManifestBytes : Upload(b)
    \/ ReloadStep("tick")
    \/ \E g \in Getters : GetStep(g)

SpecGet == Init /\ [][GetNext]_vars

\* Requests against reloads that add /new.html and drop it again, with the
\* delta loads running.
ServeNext ==
    \/ \E b \in {"m2", "m4"} : Upload(b)
    \/ ReloadStep("tick")
    \/ \E t \in DeltaTasks : LoadStep(t)
    \/ \E g \in Getters : GetStep(g)

SpecServe == Init /\ [][ServeNext]_vars

\* Two triggers on each guarded store; no background task is scheduled.
GuardsNext ==
    \/ Upload("m2")
    \/ \E p \in Reloaders : ReloadStep(p)
    \/ \E b \in CcBytes : CcUpload(b)
    \/ \E p \in Reloaders : CcmStep(p)

SpecGuards == Init /\ [][GuardsNext]_vars

\* Two webhooks and a request being authenticated, over a changing policy
\* and one new manifest.
AuthNext ==
    \/ \E b \in AuthBytes : AuthUpload(b)
    \/ Upload("m2")
    \/ \E h \in Hooks : StateStep(h)
    \/ \E r \in Checkers : CheckStep(r)

SpecAuth == Init /\ [][AuthNext]_vars

\* The delta computation on its own: a reload that has just swapped in any
\* manifest `new` over any manifest `old`, both over the keys of one root.
DiffKeys == {Key("site", path) : path \in Paths}

DiffManifests ==
    {[root |-> "site", entries |-> e] :
        e \in UNION {[S -> 1..MaxHashes] : S \in SUBSET DiffKeys}}

InitDiff ==
    /\ InitHub /\ InitGet /\ InitCcm /\ InitAuth /\ InitReq
    /\ InitHook /\ tigris_token = Token /\ InitSide
    /\ storeBytes = "mx"
    /\ storeObjects = ObjectsOf("m1")
    /\ \E old \in DiffManifests, new \in DiffManifests :
         /\ upload_data = new
         /\ rloc = [p \in Reloaders |->
                      IF p = "tick"
                      THEN [NoLocals EXCEPT !.bytes = "mx", !.old = old,
                                            !.new = new]
                      ELSE NoLocals]
    /\ udReaders = {}
    /\ version = 1
    /\ liveBytes = "mx"
    /\ last_upload_hash = hash_raw_bytes("m1")
    /\ pagesGuard = "tick"
    /\ \E warmed \in SUBSET DiffKeys :
         cache = [k \in AllKeys |-> IF k \in warmed THEN "page" ELSE NoEntry]
    /\ rpc = [p \in Reloaders |-> IF p = "tick" THEN "diff" ELSE "idle"]
    /\ lastRet = "none"
    /\ tasks = <<>>

DiffNext == PagesInvalidate("tick") \/ PagesSpawn("tick")

SpecDiff == InitDiff /\ [][DiffNext]_vars

CheckAuthStep(q) ==
    \/ \E ip \in IPs, path \in ReqPaths, header \in Headers :
         CheckAuthRealm(q, ip, path, header)
    \/ CheckAuthLimit(q) \/ CheckAuthHeader(q) \/ CheckAuthDecode(q)
    \/ CheckAuthFind(q) \/ CheckAuthVerify(q) \/ ServeGet(q)

\* GET and HEAD requests against the live access policy.
RequestNext ==
    \/ \E q \in Requests : CheckAuthStep(q)
    \/ Tick

SpecRequest == Init /\ [][RequestNext]_vars

\* check_and_reload as serve_post awaits it: called once, and stepped until
\* it returns.
HookReload(h) ==
    /\ wpc[h] = "reload"
    /\ spc[h] = "idle" => sloc[h].ret = "none"
    /\ StateStep(h)

\* The webhook, with and without a configured token.
InitPost ==
    /\ InitPages /\ InitHub /\ InitGet /\ InitCcm /\ InitAuth /\ InitReq
    /\ InitHook /\ tigris_token \in {Token, NoToken} /\ InitSide

PostNext ==
    \/ \E b \in {"m2", "bad"} : Upload(b)
    \/ \E b \in AuthBytes : AuthUpload(b)
    \/ \E h \in {"hook1"} :
         \/ \E path \in PostPaths, header \in PostHeaders :
              ServePost(h, path, header)
         \/ HookReload(h)
         \/ ServePostAnswer(h)

SpecPost == InitPost /\ [][PostNext]_vars

\* One trigger of each store while the bucket gets manifests and
\* cache-control files, malformed ones among them.
FailNext ==
    \/ \E b \in {"m2", "bad"} : Upload(b)
    \/ ReloadStep("tick")
    \/ \E b \in {"c2", "cbad"} : CcUpload(b)
    \/ CcmStep("tick")

SpecFail == Init /\ [][FailNext]_vars

\* The protect tool working on one AuthStorer, with any ids as arguments.
StorerNext ==
    \/ \E username \in StorerNames : add_user(username)
    \/ \E user \in Uuids : rm_user(user)
    \/ \E realm \in StorerPatterns : rm_realm(realm)
    \/ \E pattern \in StorerPatterns, uuids \in UuidVecs :
         protect(pattern, uuids)
    \/ \E pattern \in StorerPatterns, uuids \in UuidVecs :
         protect_additional(pattern, uuids)

SpecStorer == Init /\ [][StorerNext]_vars

\* The cache-control policy and the response headers.
CachingNext ==
    \/ \E path \in ReqPaths : get_directives(path)
    \/ save
    \/ load
    \/ \E kind \in PageKinds, path \in ReqPaths, req_method \in Methods :
         respond(kind, path, req_method)

InitCaching ==
    /\ InitPages /\ InitHub /\ InitGet /\ InitCcm /\ InitAuth /\ InitReq
    /\ InitHook /\ tigris_token = Token
    /\ storer = NoStorer
    /\ srv = NoServe
    /\ calc \in CalcInputs

SpecCaching == InitCaching /\ [][CachingNext]_vars


\* The interval task's sleep elapses and it runs
\* reload_state.check_and_reload(), the first of the callers of
\* State::check_and_reload; an error is logged and the loop goes on.
IntervalReload ==
    /\ srv.pc # "none"
    /\ srv.interval = "running"
    /\ StateStep("hook1")

\* The server from the start of its accept loop to the end of serve().
InitServe ==
    /\ InitPages /\ InitHub /\ InitGet /\ InitCcm /\ InitAuth /\ InitReq
    /\ InitHook /\ tigris_token \in {Token, NoToken}
    /\ storer = NoStorer
    /\ calc = NoCalc
    /\ srv = Serving(tigris_token)

ShutdownNext ==
    \/ \E k \in Conns : accept(k)
    \/ \E k \in Conns : ConnDone(k)
    \/ \E c \in Clients : ConnAttach(c)
    \/ ServeHub
    \/ IntervalReload
    \/ ctrl_c
    \/ IntervalSendStop
    \/ IntervalBreak
    \/ IntervalJoined
    \/ SendStopSignal
    \/ SendStopTake
    \/ SweepBreak
    \/ JoinSetShutdown
    \/ AllClosed
    \/ TimedOut

SpecShutdown == InitServe /\ [][ShutdownNext]_vars

\* The interval task ticking while the bucket gets manifests and policy
\* files, malformed ones among them, until the server is told to stop.
IntervalNext ==
    \/ \E b \in {"m2", "bad"} : Upload(b)
    \/ \E b \in AuthBytes : AuthUpload(b)
    \/ IntervalReload
    \/ ctrl_c
    \/ IntervalSendStop
    \/ IntervalBreak
    \/ IntervalJoined

InitInterval ==
    /\ InitPages /\ InitHub /\ InitGet /\ InitCcm /\ InitAuth /\ InitReq
    /\ InitHook /\ tigris_token = NoToken
    /\ storer = NoStorer
    /\ calc = NoCalc
    /\ srv = Serving(tigris_token)

SpecInterval == InitInterval /\ [][IntervalNext]_vars

\* One NonEmptyList under any calls of its operations.
ListNext ==
    \/ \E list \in Vecs : CallNew(list)
    \/ \E value \in Vecs : CallTryFrom(value)
    \/ \E el \in Elems : CallPush(el)
    \/ \E iter \in Vecs, hinted \in BOOLEAN : CallExtend(iter, hinted)
    \/ \E index \in 0..MaxLen : CallRemove(index)
    \/ \E index \in 0..MaxLen : CallSwapRemove(index)
    \/ \E keep \in SUBSET Elems : CallRetain(keep)
    \/ \E index \in 0..MaxLen : CallIndex(index)

InitList ==
    /\ InitPages /\ InitHub /\ InitGet /\ InitCcm /\ InitAuth /\ InitReq
    /\ InitHook /\ tigris_token = Token
    /\ storer = NoStorer
    /\ srv = NoServe
    /\ calc = Call("none", <<>>, <<>>, "none")

SpecList == InitList /\ [][ListNext]_vars

\* The uploader run again and again on an empty bucket, over any directory
\* of the tree and any contents of its files.
UploaderNext ==
    \/ \E dir \in Dirs, fs \in [Files -> FileContents] : UploadRead(dir, fs)
    \/ \E k \in Files : UploadWrite(k)
    \/ UploadPublish
    \/ \E k \in Files : UploadDelete(k)
    \/ UploadDone
    \/ UploadFails

InitUploader ==
    /\ InitPages /\ InitHub /\ InitGet /\ InitCcm /\ InitAuth /\ InitReq
    /\ InitHook /\ tigris_token = Token
    /\ storer = NoStorer
    /\ srv = NoServe
    /\ calc = Uploading("idle", "", [k \in Files |-> NoObject], NoManifest,
                        NoCollect)

SpecUploader == InitUploader /\ [][UploaderNext]_vars

\* Requests of every kind arriving at call, and the hub they attach to.
CallNext ==
    \/ \E c \in Clients, method \in CallMethods, path \in ReqPaths,
          upgrade \in BOOLEAN, handshake \in BOOLEAN :
         call(c, method, path, upgrade, handshake)
    \/ \E c \in Clients :
         \/ CallAnswered(c)
         \/ TaskAttach(c)
         \/ TaskDrop(c)
         \/ TaskUpgradeFails(c)
    \/ SweepLock
    \/ SweepCheck

InitCall ==
    /\ InitPages /\ InitHub /\ InitGet /\ InitCcm /\ InitAuth /\ InitReq
    /\ InitHook /\ tigris_token = Token
    /\ storer = NoStorer
    /\ srv = NoServe
    /\ calc = [op |-> "call", permits |-> MaxPermits,
               req |-> [c \in Clients |-> NoCall]]

SpecCall == InitCall /\ [][CallNext]_vars

\* Operations of one shared AuthChecker called concurrently.
LocksNext ==
    \/ \E o \in OpIds, name \in AuthOps : OpStart(o, name)
    \/ \E o \in OpIds : LockRequest(o)
    \/ \E o \in OpIds : LockGrant(o)
    \/ \E o \in OpIds : LockRelease(o)
    \/ \E o \in OpIds : OpReturn(o)

InitLocks ==
    /\ InitPages /\ InitHub /\ InitGet /\ InitCcm /\ InitAuth /\ InitReq
    /\ InitHook /\ tigris_token = Token
    /\ storer = NoStorer
    /\ srv = NoServe
    /\ calc = [op |-> "locks",
               ops |-> [o \in OpIds |-> NoOp],
               held |-> [l \in AuthLocks |-> {}],
               queue |-> [l \in AuthLocks |-> <<>>]]

SpecLocks == InitLocks /\ [][LocksNext]_vars

\* An upload made once the server has caught up with the one before it.
UploadAfterReload(bytes) ==
    /\ liveBytes = storeBytes
    /\ rpc["tick"] = "idle"
    /\ Upload(bytes)

\* Two reloads over one key: the manifest goes from m1 to m2 and on to m5,
\* each reload with its delta load, the store never changing under a reload.
StaleNext ==
    \/ \E b \in {"m2", "m5"} : UploadAfterReload(b)
    \/ ReloadStep("tick")
    \/ \E t \in DeltaTasks : LoadStep(t)

SpecStale == Init /\ [][StaleNext]_vars

\* ------------------------------------------------------------- claims

\* The keys of `new` that `old` lacks or lists under another hash.
Changed(old, new) ==
    {k \in DOMAIN new.entries :
        k \notin DOMAIN old.entries \/ old.entries[k] # new.entries[k]}

\* The keys both manifests list under the same hash.
Kept(old, new) ==
    {k \in DOMAIN new.entries \cap DOMAIN old.entries :
        old.entries[k] = new.entries[k]}

\* C6: for every pair of manifests, when the diff loop of check_and_reload
\* has run, to_be_removed is the keys of old that new lacks, to_be_updated
\* is the keys of new that old lacks or lists under another hash, the two
\* are disjoint, and a key kept under the same hash is in neither.
C6_DeltaSets ==
    \A p \in Reloaders :
        rpc[p] = "spawn" =>
            LET old == rloc[p].old
                new == rloc[p].new
            IN  /\ rloc[p].to_be_removed
                      = DOMAIN old.entries \ DOMAIN new.entries
                /\ rloc[p].to_be_updated = Changed(old, new)
                /\ rloc[p].to_be_updated \cap rloc[p].to_be_removed = {}
                /\ Kept(old, new) \cap (rloc[p].to_be_updated
                                          \cup rloc[p].to_be_removed) = {}

\* A diff that removed a key, updated a key and kept a key.
C6_Witness ==
    \E p \in Reloaders :
        /\ rpc[p] = "spawn"
        /\ rloc[p].to_be_removed # {}
        /\ rloc[p].to_be_updated # {}
        /\ Kept(rloc[p].old, rloc[p].new) # {}

\* C5: a reload that finds k entries of the new manifest added or changed
\* against the old one issues exactly k reads of page objects: its task
\* reads only added or changed keys, each once, and has read all k of them
\* when its loop ends; an entry kept under the same hash is never read.
C5_DeltaMinimal ==
    \A t \in TaskIds :
        tasks[t].notify =>
            LET k == Changed(tasks[t].old, tasks[t].new)
                read == tasks[t].to_update \ tasks[t].pending
            IN  /\ read \subseteq k
                /\ tasks[t].pending \subseteq k
                /\ read \cap Kept(tasks[t].old, tasks[t].new) = {}
                /\ tasks[t].fetches = Cardinality(read)
                /\ tasks[t].pc # "fetch"
                      => tasks[t].fetches = Cardinality(k)

\* A finished delta load that read some entries and left a kept one alone.
C5_Witness ==
    \E t \in TaskIds :
        /\ tasks[t].notify
        /\ tasks[t].pc # "fetch"
        /\ tasks[t].fetches > 0
        /\ tasks[t].fetches = Cardinality(Changed(tasks[t].old, tasks[t].new))
        /\ Kept(tasks[t].old, tasks[t].new) # {}

\* A reload leaves the comparison of the digests with the two equal.
SameDigestStep(p) ==
    /\ rpc[p] = "compare"
    /\ rpc'[p] # "compare"
    /\ last_upload_hash = hash_raw_bytes(rloc[p].bytes)

\* C7: a check_and_reload that fetches a manifest whose digest equals the
\* recorded one returns Ok with the manifest, the cache and the recorded
\* digest as they were, no task spawned, no broadcast started, and the
\* guard released.
C7_SameDigestNoOp ==
    [][\A p \in Reloaders :
          SameDigestStep(p) =>
              /\ rpc'[p] = "idle"
              /\ lastRet' = "OkUnchanged"
              /\ pagesGuard' = "free"
              /\ UNCHANGED <<upload_data, version, cache, last_upload_hash,
                             tasks, hubVars>>]_vars

\* A reload has returned Ok from the comparison of the digests.
C7_Witness == lastRet = "OkUnchanged" /\ pagesGuard = "free"

\* C10 as stated: once a reload has installed the manifest of bytes B, a
\* later check_and_reload that fetches B returns Ok from the comparison of
\* the digests, changes nothing and spawns no task (so no broadcast).
C10_RepeatIsNoOp ==
    [][\A p \in Reloaders :
          (/\ version > 0
           /\ rpc[p] = "compare"
           /\ rpc'[p] # "compare"
           /\ rloc[p].bytes = liveBytes)
          => /\ rpc'[p] = "idle"
             /\ lastRet' = "OkUnchanged"
             /\ UNCHANGED <<upload_data, version, cache, tasks>>]_vars

\* The calls a client the broadcast has dealt with has seen: reload and
\* close, or, where a failing connection is taken to end the calls, reload
\* alone on a connection that fails with an error other than Closed.
CallsSeen(c, stopAtFailure) ==
    IF stopAtFailure /\ peer[c] = "broken"
    THEN <<"reload">> ELSE <<"reload", "close">>

\* What a broadcast leaves behind, given the calls a client it has dealt
\* with must have seen: it starts only when every read of its delta load
\* has completed, the clients it took are off the list, those it has not
\* reached yet have seen nothing.
BroadcastShape(stopAtFailure) ==
    \A t \in TaskIds :
        tasks[t].notify =>
            /\ tasks[t].pc # "fetch"
                  => /\ tasks[t].pending = {}
                     /\ tasks[t].ready = {}
                     /\ tasks[t].fetches = Cardinality(tasks[t].to_update)
            /\ tasks[t].pc \in {"fetch", "send_reload"}
                  => tasks[t].takenAll = {} /\ hubLock # <<"send_reload", t>>
            /\ \A c \in tasks[t].takenAll :
                  /\ c \notin Range(senders)
                  /\ \A u \in TaskIds \ {t} : c \notin tasks[u].takenAll
                  /\ c \in tasks[t].taken => clientLog[c] = <<>>
                  /\ c \notin tasks[t].taken => clientLog[c] = CallsSeen(c, stopAtFailure)

C9_BroadcastTakesAttached ==
    [][\A t \in TaskIds :
          (tasks[t].pc = "send_reload" /\ tasks'[t].pc # "send_reload")
          => \A c \in Range(senders) :
                peer[c] = "alive" => c \in tasks'[t].takenAll]_vars

\* C3 as stated: a request that consults the entries of the manifest reads
\* them from the version of the manifest it read the root from.
C3_RootAndEntriesAgree ==
    \A g \in Getters :
        gloc[g].entriesVersion # -1
            => gloc[g].entriesVersion = gloc[g].rootVersion

\* C1: at any moment at most one Pages::check_and_reload is past its
\* try-lock, and it is the holder of the guard; the same holds of the
\* cache-control manager's check_and_reload. A trigger that finds the guard
\* held stays where it was: it fetches, swaps and records nothing.
C1_OneReloadPerStore ==
    /\ Cardinality({p \in Reloaders : rpc[p] # "idle"}) <= 1
    /\ \A p \in Reloaders : rpc[p] # "idle" <=> pagesGuard = p
    /\ Cardinality({p \in Reloaders : cpc[p] # "idle"}) <= 1
    /\ \A p \in Reloaders : cpc[p] # "idle" <=> ccGuard = p

\* On both stores a reload holds the guard and a second trigger was refused.
C1_Witness ==
    /\ pagesGuard # "free"
    /\ lastRet = "ErrAlreadyReloading"
    /\ ccGuard # "free"
    /\ ccLastRet = "ErrAlreadyReloading"

\* C2 as stated: of the triggers of State::check_and_reload, at most one
\* is between the comparison of the authdata digest and the end of
\* AuthChecker::reload.
C2_OnePolicyReload ==
    Cardinality({h \in Hooks :
                    spc[h] \in {"record", "reload", "write_realms",
                                "write_users"}}) <= 1

\* C4 as stated: the realms and the users one check_auth works with are
\* those of one policy.
C4_OnePolicyVersion ==
    \A r \in Checkers :
        aloc[r].done =>
            \E b \in AuthBytes :
                /\ aloc[r].realms = read_from_s3(b).realms
                /\ aloc[r].users = read_from_s3(b).users

\* A request returns 200 in this step, having read the root of the live
\* manifest, with no reload between its swap and its invalidation.
Serves200(g) ==
    /\ gpc[g] # "idle"
    /\ gpc'[g] = "idle"
    /\ gloc'[g].status = 200
    /\ gloc[g].rootVersion = version
    /\ \A p \in Reloaders : rpc[p] # "diff"

\* C11 as stated: once a reload that dropped key K from the manifest has
\* done its invalidation, no Pages::get returns 200 for K: a request that
\* is answered 200 is for a key of the live manifest.
C11_ManifestDecides ==
    [][\A g \in Getters :
          Serves200(g) => cache_path(g) \in DOMAIN upload_data.entries]_vars

\* The path of request q is outside every realm of the live policy.
PublicPath(q) == ~starts_with(qloc[q].path, auth_realms.pattern)

\* C12: a request whose normalised path no realm of the live policy matches
\* is returned AuthConfirmed by check_auth, which for it never reads the
\* Authorization header, takes no cell of the rate limiter and never calls
\* the password verifier.
C12_PublicBypass ==
    \A q \in Requests :
        (qloc[q].ret # "none" /\ PublicPath(q)) =>
            /\ qloc[q].ret = "AuthConfirmed"
            /\ qloc[q].headerReads = 0
            /\ qloc[q].cells = 0
            /\ qloc[q].verifies = 0

\* A request for a public path that carries credentials of no user was let
\* through to the page lookup while its IP has no cell in use.
C12_Witness ==
    \E q \in Requests :
        /\ PublicPath(q)
        /\ qloc[q].got
        /\ qloc[q].header = Header("basic", "bob", "NO")
        /\ limiter[qloc[q].ip] = 0

\* Request q carries Basic credentials of a user of the matched realm with
\* the password that user's stored key was made from.
ValidCredentials(q) ==
    /\ qloc[q].header.kind = "basic"
    /\ qloc[q].header.username
         \in {auth_users[u] : u \in auth_realms.uuids \cap DOMAIN auth_users}
    /\ stored_key(qloc[q].header.username)
         = hash_password(qloc[q].header.password)

C14_TenPerMinute ==
    \A ip \in IPs : clock < TicksPerMinute => passed[ip] <= Quota

\* C14: the rate limit is checked before the credentials are looked at; an
\* attempt is evaluated when its IP has a free cell, of which there are 10
\* and one comes back every 6 seconds, and is answered 429 when it has none,
\* whatever credentials it carries; the cells of other IPs are left alone.
C14_EmptyBucketRefuses ==
    [][\A q \in Requests :
          LET ip == qloc[q].ip
          IN  /\ (qpc[q] = "limit" /\ qpc'[q] # "limit") =>
                   IF limiter[ip] = Quota
                   THEN /\ qloc'[q].status = 429
                        /\ qloc'[q].headerReads = 0
                        /\ qloc'[q].verifies = 0
                        /\ limiter' = limiter
                   ELSE /\ qpc'[q] = "header"
                        /\ limiter' = [limiter EXCEPT ![ip] = @ + 1]
              /\ (qpc[q] \in {"header", "decode", "find", "verify"}) =>
                   qloc[q].cells = 1
              /\ \A i \in IPs : passed'[i] <= Quota + clock']_vars

\* An attempt with the right password of alice was answered 429 because its
\* IP had used its 10 cells, while the other IP has all of its own.
C14_Witness ==
    \E q \in Requests :
        /\ qloc[q].status = 429
        /\ qloc[q].header = Header("basic", "alice", "pw")
        /\ limiter[qloc[q].ip] = Quota
        /\ \E other \in IPs \ {qloc[q].ip} : limiter[other] = 0

\* C15: every request for a protected path that passed the rate limit and
\* carries well-formed Basic credentials has the verifier called exactly
\* once before it is answered, never before; for an unknown username the
\* call is on the fake hash and the answer is 401, the status a known
\* username with a wrong password gets.
C15_VerifierOnEveryAttempt ==
    \A q \in Requests :
        (/\ ~PublicPath(q)
         /\ qloc[q].cells = 1
         /\ qloc[q].header.kind = "basic") =>
            IF qloc[q].ret = "none"
            THEN qloc[q].verifies = 0
            ELSE /\ qloc[q].verifies = 1
                 /\ IF qloc[q].header.username \in qloc[q].users
                    THEN /\ qloc[q].verified
                               = stored_key(qloc[q].header.username)
                         /\ ~ValidCredentials(q) => qloc[q].status = 401
                    ELSE /\ qloc[q].verified = FAKE_PASSWORD
                         /\ qloc[q].ret = "ResponseFromAuth"
                         /\ qloc[q].status = 401
                         /\ qloc[q].challenge = "none"

\* An attempt with a username the realm does not know was verified once,
\* against the fake hash, and answered 401.
C15_Witness ==
    \E q \in Requests :
        /\ ~PublicPath(q)
        /\ qloc[q].header.kind = "basic"
        /\ qloc[q].header.username \notin qloc[q].users
        /\ qloc[q].verifies = 1
        /\ qloc[q].verified = FAKE_PASSWORD
        /\ qloc[q].status = 401

\* C16 as stated: on a protected path an absent Authorization header is
\* answered 401 with a Basic challenge naming the path, every header that is
\* present and malformed (not a string, not a Basic credential, bad base64,
\* bad UTF-8, no colon) is answered 400, and a 401 without a challenge is
\* answered for a credential mismatch only.
C16_HeaderClassification ==
    \A q \in Requests :
        (qloc[q].ret = "ResponseFromAuth" /\ qloc[q].cells = 1) =>
            /\ qloc[q].header.kind = "absent" =>
                 qloc[q].status = 401 /\ qloc[q].challenge = qloc[q].path
            /\ qloc[q].header.kind
                 \in {"opaque", "bearer", "badb64", "badutf8", "nocolon"} =>
                 qloc[q].status = 400
            /\ (qloc[q].status = 401 /\ qloc[q].challenge = "none") =>
                 qloc[q].header.kind = "basic"

\* POST w is to /reload with "Bearer " and the configured token.
Authorized(w) ==
    /\ tigris_token # NoToken
    /\ w.path = "/reload"
    /\ w.header.kind = "bearer"
    /\ w.header.token = tigris_token

\* The status of a POST that is not authorized.
RejectedStatus(w) ==
    IF tigris_token = NoToken \/ w.path # "/reload" THEN 405
    ELSE IF w.header.kind = "bearer" THEN 403
    ELSE 400

\* C17: a POST starts check_and_reload only with a configured token, the
\* path /reload and the header "Bearer " followed by that token, and is then
\* answered after the coordinator returned, 200 or 500 on its error; every
\* other POST is answered 403 for a wrong token, 400 for a missing or
\* non-Bearer header, 405 without a configured token or on another path,
\* and changes no catalog, fingerprint or cache.
C17_WebhookGate ==
    [][\A h \in Hooks :
          /\ (wpc[h] = "idle" /\ wloc'[h] # wloc[h]) =>
               IF Authorized(wloc'[h])
               THEN wpc'[h] = "reload" /\ wloc'[h].called
               ELSE /\ wpc'[h] = "idle"
                    /\ ~wloc'[h].called
                    /\ wloc'[h].status = RejectedStatus(wloc'[h])
                    /\ UNCHANGED <<upload_data, version, cache, tasks,
                                   last_upload_hash, cc_current, cc_last_hash,
                                   last_auth_hash, auth_realms, auth_users,
                                   spc>>
          /\ (spc[h] = "idle" /\ spc'[h] # "idle") =>
               wpc[h] = "reload" /\ Authorized(wloc[h])
          /\ (wpc[h] = "reload" /\ wpc'[h] = "idle") =>
               /\ spc[h] = "idle"
               /\ sloc[h].ret # "none"
               /\ wloc'[h].status = IF sloc[h].ret = "Err" THEN 500
                                    ELSE 200]_vars

\* An authorized POST was answered 200 after its reload installed the
\* manifest m2.
C17_Witness ==
    \E h \in Hooks :
        /\ wloc[h].called
        /\ wloc[h].status = 200
        /\ liveBytes = "m2"

\* The step ends a Pages::check_and_reload of p with an error of the fetch
\* or of the parse.
PagesFails(p) ==
    /\ rpc[p] # "idle"
    /\ rpc'[p] = "idle"
    /\ lastRet' \in {"ErrFetch", "ErrParse"}

\* The step ends a CacheControlManager::check_and_reload of p with an error
\* of the fetch or of the parse.
CcmFails(p) ==
    /\ cpc[p] # "idle"
    /\ cpc'[p] = "idle"
    /\ ccLastRet' \in {"ErrFetch", "ErrParse"}

C19_FailureNotRecorded ==
    [][\A h \in Hooks :
          (spc[h] = "compare" /\ spc'[h] = "manifest") =>
              \A b \in AuthBytes :
                  sloc[h].hash = hash_raw_bytes(b) =>
                      /\ auth_realms = read_from_s3(b).realms
                      /\ auth_users = read_from_s3(b).users]_vars

\* The step is a Pages::check_and_reload that found the guard held: it
\* returned at once, no trigger moved.
SkippedTrigger ==
    /\ pagesGuard # "free"
    /\ rpc' = rpc
    /\ lastRet' # lastRet

\* C20 as stated: a check_and_reload that finds the guard of its store held
\* returns at once, fetches nothing, changes nothing, and what it returns
\* to its caller is not a failure of the reload.
C20_ContentionIsNoOp ==
    [][SkippedTrigger =>
          /\ UNCHANGED <<upload_data, version, cache, tasks, last_upload_hash,
                         pagesGuard, rloc, storeBytes, storeObjects>>
          /\ lastRet' \notin {"ErrAlreadyReloading", "ErrFetch",
                              "ErrParse"}]_vars

\* The step is rm_user(id).
RmUserStep(id) ==
    /\ storer' # storer
    /\ storer'.last = [op |-> "rm_user", id |-> id]

\* C21 as stated: after rm_user(id) no realm's list contains id, id is not
\* a key of users, and a realm whose last member was id is not stored with
\* an empty list.
C21_RmUserLeavesNoEmptyRealm ==
    [][\A id \in Uuids :
          RmUserStep(id) =>
              /\ \A r \in DOMAIN storer'.realms :
                     id \notin Range(storer'.realms[r])
              /\ id \notin DOMAIN storer'.users
              /\ \A r \in DOMAIN storer.realms \cap DOMAIN storer'.realms :
                     storer.realms[r] # <<>> => storer'.realms[r] # <<>>]_vars

\* C22 as stated: every id in some realm's list is a key of the users.
C22_RealmIdsAreUsers ==
    \A r \in DOMAIN storer.realms :
        Range(storer.realms[r]) \subseteq DOMAIN storer.users

MatchingRealms(caching, path) ==
    {r \in DOMAIN caching.overrides : matches(r, path)}

RECURSIVE ConcatLists(_, _)
ConcatLists(caching, order) ==
    IF order = <<>> THEN <<>>
    ELSE caching.overrides[Head(order)] \o ConcatLists(caching, Tail(order))

\* C23: a lookup returns the lists of exactly the overrides whose realm
\* matches the path, one after the other; when no override matches it
\* returns the default if there is one and the empty list if there is
\* none; the default is never added to what the overrides gave.
C23_LookupResult ==
    calc.op = "lookup" =>
        LET M == MatchingRealms(calc.caching, calc.path)
        IN  /\ M # {} =>
                  \E o \in IterOrders(M) :
                      calc.out = ConcatLists(calc.caching, o)
            /\ (M = {} /\ calc.caching.default # <<>>) =>
                  calc.out = calc.caching.default[1]
            /\ (M = {} /\ calc.caching.default = <<>>) => calc.out = <<>>

\* A lookup where two overrides match and the policy has a default.
C23_Witness ==
    /\ calc.op = "lookup"
    /\ Cardinality(MatchingRealms(calc.caching, calc.path)) = 2
    /\ calc.caching.default # <<>>
    /\ calc.out # <<>>

\* C24 as stated: every response of the page path, 200 or 404 fallback,
\* carries Cache-Control exactly when the store's lookup for the request
\* path is not empty, and then with those directives joined by commas.
C24_HeaderFollowsTheStore ==
    calc.op = "respond" =>
        LET dirs == get_cache_control_directives(
                        calc.caching, calc.path, calc.order)
        IN  /\ calc.resp.cache_control # "absent" <=> dirs # <<>>
            /\ dirs # <<>> =>
                  calc.resp.cache_control = directives_to_header(dirs)

DistinctRealms(stored) ==
    \A i, j \in 1..Len(stored.overrides) :
        i # j => stored.overrides[i][1] # stored.overrides[j][1]

Normalized(stored, again) ==
    /\ again.default = stored.default
    /\ Range(again.overrides) = {e \in Range(stored.overrides) : e[2] # <<>>}
    /\ DistinctRealms(again)

\* C25 as stated: a policy written and read back is the same policy, and
\* any stored form read and written again is the stored form without its
\* empty lists, as a set of overrides.
C25_RoundTrip ==
    /\ calc.op = "save" => calc.back = calc.caching
    /\ calc.op = "load" => Normalized(calc.stored, calc.again)

\* C25, amended: a policy written and read back is the same policy; a
\* stored form that names no realm twice, read and written again, is the
\* stored form without its empty lists, as a set of overrides.
C25_RoundTripDistinctRealms ==
    /\ calc.op = "save" => calc.back = calc.caching
    /\ (calc.op = "load" /\ DistinctRealms(calc.stored)) =>
           Normalized(calc.stored, calc.again)

\* A stored form with two realms, one of them with an empty list, read and
\* written again.
C25_Witness ==
    /\ calc.op = "load"
    /\ DistinctRealms(calc.stored)
    /\ Len(calc.stored.overrides) = 2
    /\ \E e \in Range(calc.stored.overrides) : e[2] = <<>>
    /\ Len(calc.again.overrides) = 1

AcceptLoopLeft == srv.pc \in {"shutdown", "drain", "done"}

\* C26 as stated: in the timer mode and in the webhook mode alike, once the
\* accept loop has been left for the wait on the in-flight connections, the
\* reload coordinator has been stopped, the keepalive sweep has been
\* signalled to stop, and no client is left in the live-reload list.
C26_ShutdownClosesHub ==
    AcceptLoopLeft =>
        /\ srv.interval \in {"stopped", "none"}
        /\ sweepPc = "stopped" \/ srv.stop_dead_check
        /\ senders = <<>>

\* C27 as stated: a connection task is aborted only when the ten-second
\* deadline has elapsed with the task still running.
C27_AbortOnlyAtDeadline ==
    srv.pc # "none" =>
        \A k \in Conns : srv.conns[k] = "aborted" => srv.timer = "elapsed"

\* The manifest has changed, the reload that installed the stored manifest
\* and every delta load have finished, and nothing else is in flight.
Quiescent ==
    /\ version > 0
    /\ liveBytes = storeBytes
    /\ \A p \in Reloaders : rpc[p] = "idle"
    /\ \A t \in TaskIds \cap DeltaTasks : tasks[t].pc # "fetch"
    /\ \A g \in Getters : gpc[g] = "idle"

\* C28 as stated: in a quiescent state after a manifest change, every
\* cached entry whose key is in the live manifest holds the bytes the
\* object store holds for that key.
C28_QuiescentCacheIsFresh ==
    Quiescent =>
        \A k \in DOMAIN upload_data.entries :
            cache[k] # NoEntry => cache[k] = storeObjects[k]

\* The read-through fetch of request g ends in this step without a page.
ReadThroughFails(g) ==
    /\ gpc[g] = "s3"
    /\ gpc'[g] # "s3"
    /\ gloc'[g].status # 200

\* C29 as stated: a request whose read-through fetch fails for a key of the
\* live manifest is answered with the 404 fallback, and the manifest is
\* left as it was, so that the next request for the key fetches again.
C29_FailedFetchFallsBack ==
    [][\A g \in Getters :
          ReadThroughFails(g) =>
              /\ gpc'[g] = "idle"
              /\ gloc'[g].status = 404
              /\ upload_data' = upload_data]_vars

\* A reload has installed the stored manifest and every delta load has
\* finished.
ReloadCompleted ==
    /\ version > 0
    /\ liveBytes = storeBytes
    /\ \A p \in Reloaders : rpc[p] = "idle"
    /\ \A t \in TaskIds \cap DeltaTasks : tasks[t].pc # "fetch"

NotFoundKey == Key(upload_data.root, "/404.html")

\* C30 as stated, for the reloads: after every completed page reload, if
\* the store holds {root}/404.html for the live root then the cache holds
\* it.
C30_NotFoundPageWarmAfterReload ==
    ReloadCompleted =>
        (storeObjects[NotFoundKey] # NoObject => cache[NotFoundKey] # NoEntry)

\* C31 as stated: for each of the three catalogs, whenever no reload of the
\* catalog is in flight, the recorded fingerprint is the digest of the raw
\* bytes the live catalog was loaded from.
C31_FingerprintOfLive ==
    /\ pagesGuard = "free" => last_upload_hash = hash_raw_bytes(liveBytes)
    /\ ccGuard = "free" =>
           \E b \in CcBytes :
               /\ CcWellFormed(b)
               /\ cc_last_hash = hash_raw_bytes(b)
               /\ cc_current = construct_from_bytes(b)
    /\ (\A h \in Hooks : spc[h] = "idle") =>
           \E b \in AuthBytes :
               /\ last_auth_hash = hash_raw_bytes(b)
               /\ auth_realms = read_from_s3(b).realms
               /\ auth_users = read_from_s3(b).users

\* Task t calls send_reload in this step while the hub lock is held.
CalledWhileHeld(t) ==
    /\ t \in TaskIds
    /\ tasks[t].pc = "send_reload"
    /\ tasks'[t].pc # "send_reload"
    /\ hubLock # HubFree

\* C32: a send_reload called while the hub lock is held does not wait: in
\* that step it returns the error "Already reloading", the client list is
\* as it was and nothing has been sent to any client.
C32_BroadcastFailFast ==
    [][\A t \in DeltaTasks :
          CalledWhileHeld(t) =>
              /\ tasks'[t].pc = "done"
              /\ tasks'[t].result = "ErrAlreadyReloading"
              /\ UNCHANGED <<senders, clientLog, peer, hubLock>>]_vars

\* A broadcast was refused while a client was in the list, the lock held by
\* the sweep or by an attaching client.
C32_Witness ==
    \E t \in TaskIds :
        /\ tasks[t].result = "ErrAlreadyReloading"
        /\ hubLock # HubFree
        /\ senders # <<>>

\* The clients of a list whose peer has not closed its end.
NotClosed(list) == SelectSeq(list, LAMBDA c : peer[c] # "closed")

\* C33 as stated: when a sweep ends, the list holds exactly the clients that
\* were in it at the start of the sweep and whose peer is not closed, in
\* their order: every closed client is gone and no other client is.
C33_SweepPrunesEveryClosed ==
    [][(sweepPc = "check" /\ sweepPc' = "sleep") =>
           senders' = NotClosed(senders)]_vars

\* send_stop has been called and has returned.
SendStopReturned == srv.reloader = "Waiting" /\ srv.sig = "done"

C34_NoSweepAfterStop == SendStopReturned => sweepPc # "check"

\* The second part alone: the list is empty after send_stop has returned.
C34_ListEmptyAfterStop == SendStopReturned => senders = <<>>

\* The keys of the manifest a reload replaces that its new manifest lacks.
DroppedKeys(p) == DOMAIN rloc[p].old.entries \ DOMAIN rloc[p].new.entries

\* Reload p runs its predicate invalidation in this step.
Invalidates(p) == rpc[p] = "diff" /\ rpc'[p] = "spawn"

\* C35: the invalidation of a reload drops the cached entries of the keys
\* the new manifest lacks and leaves every other entry as it was; no other
\* step drops an entry, and an entry changes its content only by an insert
\* of a delta load.
C35_InvalidationFrame ==
    [][/\ \A p \in Reloaders :
             Invalidates(p) =>
                 \A k \in AllKeys :
                     cache'[k] = IF k \in DroppedKeys(p)
                                 THEN NoEntry ELSE cache[k]
       /\ \A k \in AllKeys :
             /\ (cache[k] # NoEntry /\ cache'[k] = NoEntry) =>
                    \E p \in Reloaders : Invalidates(p) /\ k \in DroppedKeys(p)
             /\ (cache[k] # NoEntry /\ cache'[k] \notin {cache[k], NoEntry}) =>
                    \E t \in TaskIds : tasks'[t] # tasks[t]]_vars

\* A reload has just invalidated: a key the new manifest lacks is gone from
\* the cache, and a key whose hash changed is still cached with the content
\* it had, waiting for the delta load.
C35_Witness ==
    \E p \in Reloaders :
        /\ rpc[p] = "spawn"
        /\ \E k \in rloc[p].to_be_removed : cache[k] = NoEntry
        /\ \E k \in rloc[p].to_be_updated :
               /\ k \in DOMAIN rloc[p].old.entries
               /\ cache[k] # NoEntry

\* C36: a run of State::check_and_reload returns only from its manifest
\* check, whatever happened to the access policy before it; the interval
\* task ends only on the stop message, and whenever it is between two runs
\* it can start the next one, also after a run that returned an error.
C36_StoresIndependent ==
    /\ [][\A h \in Hooks :
             (spc[h] # "idle" /\ spc'[h] = "idle") => spc[h] = "manifest"]_vars
    /\ [][(srv.interval = "running" /\ srv'.interval # "running") =>
             srv.send_stop]_vars
    /\ []((srv.interval = "running" /\ spc["hook1"] = "idle") =>
             ENABLED IntervalReload)

\* The interval task is still running after a run in which the policy
\* could not be read and the manifest did not parse.
C36_Witness ==
    /\ srv.interval = "running"
    /\ spc["hook1"] = "idle"
    /\ sloc["hook1"].ret = "Err"
    /\ last_auth_hash = hash_raw_bytes("")

\* The list a call was made on, when there was one.
OneElement(c) == c.list # <<>> /\ c.list[1].len = 1

OutOfBounds(c, index) == c.list # <<>> /\ index >= c.list[1].len

\* C37: a NonEmptyList that exists has at least one element; new and the
\* builder conversion give None and Err for an empty input; remove and
\* swap_remove on a one-element list panic and leave the list as it was;
\* remove, swap_remove and index with an index out of bounds panic and
\* leave the list as it was.
C37_NeverEmpty ==
    /\ [](calc.op = "list" =>
             \A i \in 1..Len(calc.list) :
                 /\ calc.list[i].len >= 1
                 /\ calc.list[i].len <= calc.list[i].cap
                 /\ \A j \in 1..calc.list[i].len :
                        calc.list[i].buf[j] \in Elems)
    /\ [][/\ (calc'.call \in {"new", "try_from"} /\ calc'.arg = <<>>) =>
                 /\ calc'.list = <<>>
                 /\ calc'.call = "try_from" => calc'.ret = "Err"
          /\ (calc'.call \in {"remove", "swap_remove"} /\ OneElement(calc)) =>
                 calc'.ret = Panic /\ calc'.list = calc.list
          /\ (calc'.call \in {"remove", "swap_remove", "index"}
                /\ OutOfBounds(calc, calc'.arg)) =>
                 calc'.ret = Panic /\ calc'.list = calc.list]_vars

\* remove(0) has just panicked on a list of one element that was built by
\* removing from a longer one.
C37_Witness ==
    /\ calc.op = "list"
    /\ calc.call = "remove"
    /\ calc.arg = 0
    /\ calc.ret = Panic
    /\ OneElement(calc)
    /\ calc.list[1].cap > 1

\* C38 as stated: when upload_dir_to_bucket has completed successfully,
\* every key of the manifest it published is in the bucket with the bytes
\* its hash was computed from.
C38_PublishedManifestValid ==
    (calc.op = "upload" /\ calc.pc = "done") =>
        \A k \in DOMAIN calc.manifest.entries :
            /\ calc.objects[k] # NoObject
            /\ calc.manifest.entries[k] = EntryHash(calc.objects[k])

\* Request c asked for the upgrade with a handshake that passes.
AsksUpgrade(c) ==
    /\ calc.req[c].pc # "none"
    /\ calc.req[c].upgrade
    /\ calc.req[c].handshake

HoldsLock(o, lock) == \E h \in calc.held[lock] : h[1] = o

\* Operation o waits for the lock and cannot be given it.
Blocked(o, lock) == Running(o) /\ Queued(o, lock) /\ ~Grantable(o, lock)

\* C40 as stated: no state is reachable in which two operations each hold
\* one of the two locks and wait for the other.
C40_NoHoldAndWaitCycle ==
    calc.op = "locks" =>
        ~ \E o1, o2 \in OpIds :
              /\ o1 # o2
              /\ \E a, b \in AuthLocks :
                   /\ a # b
                   /\ HoldsLock(o1, a) /\ Blocked(o1, b)
                   /\ HoldsLock(o2, b) /\ Blocked(o2, a)

====
